---- MODULE Spec2Model ----
(***************************************************************************)
(* A model of gh-wtfork (cmd/gh-wtfork/main.go): the per-upstream cache of *)
(* merged/closed pull requests, the per-fork analyzer and the bounded      *)
(* worker pool of run.                                                     *)
(***************************************************************************)
EXTENDS Integers, Sequences, FiniteSets, TLC

\* ------------------------------------------------------------------ bounds
\* Pull request numbers are 1..MaxPR.
MaxPR == 2
\* Longest list of nodes one search response holds.
MaxLive == 2
\* Number of calls one behaviour of the cache harness makes (the clock stops there).
MaxOps == 2

\* --------------------------------------------------------------- constants
PRStateOpen == "OPEN"
PRStateMerged == "MERGED"
PRStateClosed == "CLOSED"
PRStates == {PRStateOpen, PRStateMerged, PRStateClosed}

CategoryMaintained == "maintained"
CategoryContribution == "contribution"
CategoryUntouched == "untouched"

\* ------------------------------------------------------------------ helpers
\* A repository full name is its sequence of characters.
UpLib == <<"a", "/", "l">>
UpApp == <<"a", "/", "p">>
Upstreams == {UpLib, UpApp}

\* Branch names a pull request may come from.
HeadRefs == {"main", "feature"}
PRNums == 1 .. MaxPR
TitleOf(n) == <<"title", n>>
URLOf(n) == <<"pull", n>>

\* Every sequence that lists the elements of the finite set S once each.
RECURSIVE Orderings(_)
Orderings(S) ==
    IF S = {} THEN {<<>>}
    ELSE UNION {{<<x>> \o t : t \in Orderings(S \ {x})} : x \in S}

\* The set of elements of a sequence.
Range(s) == {s[i] : i \in DOMAIN s}

\* ------------------------------------------------------------- data model
\* ghPR: a pull request as the search returns it (Head.Ref is the branch).
GhPR(n, st, ref) == [Number |-> n, Title |-> TitleOf(n), State |-> st, URL |-> URLOf(n), Ref |-> ref]
\* A node of the search response that is no pull request decodes to zero values.
EmptyNode == [Number |-> 0, Title |-> <<>>, State |-> "", URL |-> <<>>, Ref |-> ""]
LivePRs == {GhPR(n, st, ref) : n \in PRNums, st \in PRStates, ref \in HeadRefs}
Nodes == LivePRs \cup {EmptyNode}

\* The search responses: lists of nodes, no pull request twice.
NodeLists ==
    UNION {{s \in [1 .. k -> Nodes] :
              \A i, j \in 1 .. k : i # j => s[i].Number # s[j].Number} :
           k \in 0 .. MaxLive}

\* CachedPR, built from a ghPR as savePRCache does.
ToCachedPR(pr) ==
    [Number |-> pr.Number, Title |-> pr.Title, State |-> pr.State, URL |-> pr.URL, Branch |-> pr.Ref]
\* ghPR built from a CachedPR as mergeCachedPRs and the fallback do.
FromCachedPR(cpr) ==
    [Number |-> cpr.Number, Title |-> cpr.Title, State |-> cpr.State, URL |-> cpr.URL, Ref |-> cpr.Branch]

\* PRCache in memory: a map from number to CachedPR and a time; a nil pointer has nil = TRUE.
EmptyMap == [k \in {} |-> EmptyNode]
NewPRCache == [nil |-> FALSE, PRs |-> EmptyMap, UpdatedAt |-> 0]
NilPRCache == [nil |-> TRUE, PRs |-> EmptyMap, UpdatedAt |-> 0]

\* A cache file: absent, unreadable, not JSON, or a document. A document lists
\* its "prs" object as key/value members in key order.
FileMissing == [kind |-> "missing"]
FileUnreadable == [kind |-> "unreadable"]
FileCorrupt == [kind |-> "corrupt"]

\* json.MarshalIndent of a PRCache: the map's members sorted by key.
RECURSIVE SortedKeys(_)
SortedKeys(S) ==
    IF S = {} THEN <<>>
    ELSE LET m == CHOOSE x \in S : \A y \in S : x <= y
         IN <<m>> \o SortedKeys(S \ {m})

Marshal(cache) ==
    LET ks == SortedKeys(DOMAIN cache.PRs)
    IN [kind |-> "doc",
        prs |-> [i \in DOMAIN ks |-> [key |-> ks[i], val |-> cache.PRs[ks[i]]]],
        updated_at |-> cache.UpdatedAt]

\* json.Unmarshal of a document into a PRCache: a later member replaces an
\* earlier one of the same key.
Unmarshal(doc) ==
    LET keys == {doc.prs[i].key : i \in DOMAIN doc.prs}
        last(k) == CHOOSE i \in DOMAIN doc.prs :
                      /\ doc.prs[i].key = k
                      /\ \A j \in DOMAIN doc.prs : doc.prs[j].key = k => j <= i
    IN [nil |-> FALSE,
        PRs |-> [k \in keys |-> doc.prs[last(k)].val],
        UpdatedAt |-> doc.updated_at]

\* ------------------------------------------------------------ PR cache store
\* cacheFileName: "/" replaced by "_", ".json" appended.
cacheFileName(upstreamFullName) ==
    [i \in 1 .. Len(upstreamFullName) |->
        IF upstreamFullName[i] = "/" THEN "_" ELSE upstreamFullName[i]] \o <<".json">>

FileNames == {cacheFileName(u) : u \in Upstreams}

\* The file system as the cache code sees it: whether the cache directory
\* resolves (getCacheDir), whether it can be created (MkdirAll).
\* and whether os.WriteFile succeeds.
HealthyFS == [cacheDirOK |-> TRUE, mkdirOK |-> TRUE, writeOK |-> TRUE]

\* loadPRCache: (cache, err). A missing or malformed file is an empty cache; an
\* unresolvable directory or an unreadable file is (nil, err).
loadPRCache(d, e, upstreamFullName) ==
    IF ~e.cacheDirOK THEN [cache |-> NilPRCache, err |-> TRUE]
    ELSE LET file == d[cacheFileName(upstreamFullName)]
         IN CASE file.kind = "missing" -> [cache |-> NewPRCache, err |-> FALSE]
              [] file.kind = "unreadable" -> [cache |-> NilPRCache, err |-> TRUE]
              [] file.kind = "corrupt" -> [cache |-> NewPRCache, err |-> FALSE]
              [] OTHER -> [cache |-> Unmarshal(file), err |-> FALSE]

IsTerminal(st) == st = PRStateMerged \/ st = PRStateClosed

\* Mutant of StoreIfTerminal: every pull request is stored, whatever its state.
StoreAlways(m, pr) ==
    [k \in DOMAIN m \cup {pr.Number} |-> IF k = pr.Number THEN ToCachedPR(pr) ELSE m[k]]

\* Mutant of StoreIfTerminal: the entry is stored under its number with the
\* branch left out.
StoreNoBranch(m, pr) ==
    IF IsTerminal(pr.State)
    THEN [k \in DOMAIN m \cup {pr.Number} |->
            IF k = pr.Number THEN [ToCachedPR(pr) EXCEPT !.Branch = ""] ELSE m[k]]
    ELSE m

\* Mutant of StoreIfTerminal: the stored entry replaces the whole map.
StoreAlone(m, pr) ==
    IF IsTerminal(pr.State) THEN [k \in {pr.Number} |-> ToCachedPR(pr)] ELSE m

\* Mutant of StoreIfTerminal: an entry already held is never replaced.
StoreIfAbsent(m, pr) ==
    IF IsTerminal(pr.State) /\ pr.Number \notin DOMAIN m
    THEN [k \in DOMAIN m \cup {pr.Number} |-> IF k = pr.Number THEN ToCachedPR(pr) ELSE m[k]]
    ELSE m

\* One turn of savePRCache's loop: cache.PRs[pr.Number] = CachedPR{...} for a
\* merged or closed pull request.
StoreIfTerminal(m, pr) ==
    IF IsTerminal(pr.State)
    THEN [k \in DOMAIN m \cup {pr.Number} |-> IF k = pr.Number THEN ToCachedPR(pr) ELSE m[k]]
    ELSE m

\* savePRCache's loop over prs, in order.
RECURSIVE Overlay(_, _)
Overlay(m, prs) ==
    IF prs = <<>> THEN m
    ELSE Overlay(StoreIfTerminal(m, Head(prs)), Tail(prs))

\* savePRCache: the disk afterwards, the error returned, and whether the call
\* panicked (the reloaded cache is nil and is written through).
savePRCache(d, e, upstreamFullName, prs, now) ==
    IF ~e.cacheDirOK \/ ~e.mkdirOK THEN [disk |-> d, err |-> TRUE, panic |-> FALSE]
    ELSE LET cache == loadPRCache(d, e, upstreamFullName).cache
         IN IF cache.nil THEN [disk |-> d, err |-> FALSE, panic |-> TRUE]
            ELSE LET upd == [cache EXCEPT !.PRs = Overlay(cache.PRs, prs),
                                          !.UpdatedAt = now]
                 IN IF e.writeOK
                    THEN [disk |-> [d EXCEPT ![cacheFileName(upstreamFullName)] = Marshal(upd)],
                          err |-> FALSE, panic |-> FALSE]
                    ELSE [disk |-> d, err |-> TRUE, panic |-> FALSE]

\* The cached entries a list of pull requests does not hold.
Unseen(fresh, cached) ==
    {FromCachedPR(cached.PRs[k]) : k \in {j \in DOMAIN cached.PRs :
        \A i \in DOMAIN fresh : fresh[i].Number # cached.PRs[j].Number}}

\* Mutant of mergeCachedPRs: a cached entry replaces the fresh one of its number.
mergeCachedWins(fresh, cached) ==
    LET pick(pr) == IF pr.Number \in DOMAIN cached.PRs
                    THEN FromCachedPR(cached.PRs[pr.Number]) ELSE pr
    IN {[i \in DOMAIN fresh |-> pick(fresh[i])] \o t : t \in Orderings(Unseen(fresh, cached))}

\* Mutant of mergeCachedPRs: the cached entries are put in front.
mergeCachedFirst(fresh, cached) ==
    {t \o fresh : t \in Orderings(Unseen(fresh, cached))}

\* Mutant of mergeCachedPRs: every cached entry is appended, seen or not.
mergeCachedAll(fresh, cached) ==
    {fresh \o t : t \in Orderings({FromCachedPR(cached.PRs[k]) : k \in DOMAIN cached.PRs})}

\* mergeCachedPRs: the fresh list, then the cached pull requests whose number it
\* does not hold, in the order the map is ranged over (any order): the set of
\* lists the call may return.
mergeCachedPRs(fresh, cached) ==
    {fresh \o t : t \in Orderings(Unseen(fresh, cached))}

\* A response of the search call: failed, not JSON, or a list of nodes.
RespFail == [kind |-> "fail", nodes |-> <<>>]
RespMalformed == [kind |-> "malformed", nodes |-> <<>>]
RespOK(nodes) == [kind |-> "ok", nodes |-> nodes]
SearchResponses == {RespFail, RespMalformed} \cup {RespOK(ns) : ns \in NodeLists}

\* The nodes kept from a search response: those with a number.
FreshPRs(nodes) == SelectSeq(nodes, LAMBDA pr : pr.Number # 0)

\* Mutant of StartCache: the cache is loaded whatever the flag says.
StartCacheLoaded(d, e, bypass, parentFullName) == loadPRCache(d, e, parentFullName).cache

\* The cache getPRsForFork starts from: loaded, or empty under --no-cache.
StartCache(d, e, bypass, parentFullName) ==
    IF ~bypass THEN loadPRCache(d, e, parentFullName).cache ELSE NewPRCache

\* An outcome of getPRsForFork: what it returns, whether it panicked, the disk
\* it leaves, and whether its savePRCache returned an error.
Outcome(prs, err, panic, dsk, saveErr) ==
    [prs |-> prs, err |-> err, panic |-> panic, disk |-> dsk, saveErr |-> saveErr]

\* Mutant of ReturnAfterSave: the error of savePRCache is returned.
ReturnSaveError(prs, sv) ==
    IF sv.err THEN Outcome(<<>>, TRUE, sv.panic, sv.disk, TRUE)
    ELSE Outcome(prs, FALSE, sv.panic, sv.disk, FALSE)

\* _ = savePRCache(parentFullName, prs); return prs, nil
ReturnAfterSave(prs, sv) == Outcome(prs, FALSE, sv.panic, sv.disk, sv.err)

\* getPRsForFork: the set of outcomes the call may have for a search response.
getPRsForFork(d, e, bypass, parentFullName, resp, now) ==
    LET cache == StartCache(d, e, bypass, parentFullName)
    IN CASE resp.kind = "fail" ->
              IF cache.nil THEN {Outcome(<<>>, FALSE, TRUE, d, FALSE)}
              ELSE IF DOMAIN cache.PRs # {}
              THEN {Outcome(t, FALSE, FALSE, d, FALSE) :
                      t \in Orderings({FromCachedPR(cache.PRs[k]) : k \in DOMAIN cache.PRs})}
              ELSE {Outcome(<<>>, TRUE, FALSE, d, FALSE)}
         [] resp.kind = "malformed" -> {Outcome(<<>>, TRUE, FALSE, d, FALSE)}
         [] OTHER ->
              IF cache.nil THEN {Outcome(<<>>, FALSE, TRUE, d, FALSE)}
              ELSE {ReturnAfterSave(prs, savePRCache(d, e, parentFullName, prs, now)) :
                    prs \in mergeCachedPRs(FreshPRs(resp.nodes), cache)}

\* ----------------------------------------------------------- fork analyzer
\* Longest ahead/behind count a comparison reports.
MaxAhead == 1

\* PR: the pull request linked to a branch; Branch.PR is a pointer, nil when none.
NoPR == [nil |-> TRUE, Number |-> 0, Title |-> <<>>, State |-> "", URL |-> <<>>]
NewPR(pr) == [nil |-> FALSE, Number |-> pr.Number, Title |-> pr.Title, State |-> pr.State, URL |-> pr.URL]

\* A timestamp as the API prints it, character by character.
IsoDate == <<"2", "0", "2", "4", "-", "0", "5", "-", "0", "6", "T",
             "0", "7", ":", "0", "8", ":", "0", "9", "Z">>
DateLen == 10
\* formatDate: the first ten characters, when there are that many.
formatDate(isoDate) == IF Len(isoDate) >= DateLen THEN SubSeq(isoDate, 1, DateLen) ELSE isoDate
\* relativeTime: empty for a short string, else the age of the day the string
\* starts with (the rendering against time.Now() is kept abstract).
relativeTime(isoDate) == IF Len(isoDate) < DateLen THEN <<>> ELSE <<"ago">> \o SubSeq(isoDate, 1, DateLen)

\* ghRepo: an enumerated repository; Parent is a pointer, nil when absent.
NoParent == [nil |-> TRUE, Name |-> <<>>, FullName |-> <<>>, DefaultBranch |-> ""]
ParentLib == [nil |-> FALSE, Name |-> <<"l">>, FullName |-> UpLib, DefaultBranch |-> "main"]
MkRepo(name, parent) ==
    [Name |-> name, FullName |-> <<"m", "/">> \o name, URL |-> <<"u", "/">> \o name,
     DefaultBranch |-> "main", Parent |-> parent]
RepoLib == MkRepo(<<"l">>, ParentLib)
RepoSolo == MkRepo(<<"s">>, NoParent)
Repos == {RepoLib, RepoSolo}

\* The zero Fork, and the Fork analyzeForkWithProgress starts from.
ZeroFork ==
    [Name |-> <<>>, FullName |-> <<>>, URL |-> <<>>, ParentName |-> <<>>, ParentFullName |-> <<>>,
     DefaultBranch |-> "", Category |-> "", Ahead |-> 0, Behind |-> 0,
     ForkLastCommit |-> <<>>, ForkLastAgo |-> <<>>, UpstreamLast |-> <<>>, UpstreamAgo |-> <<>>,
     Branches |-> <<>>, Untouched |-> FALSE]
NewFork(r) ==
    [ZeroFork EXCEPT !.Name = r.Name, !.FullName = r.FullName, !.URL = r.URL,
                     !.DefaultBranch = r.DefaultBranch,
                     !.ParentName = IF r.Parent.nil THEN <<>> ELSE r.Parent.Name,
                     !.ParentFullName = IF r.Parent.nil THEN <<>> ELSE r.Parent.FullName]

\* Responses of the comparison call: failed, or the two counts.
CmpFail == [ok |-> FALSE, AheadBy |-> 0, BehindBy |-> 0]
CmpResponses ==
    {CmpFail} \cup {[ok |-> TRUE, AheadBy |-> a, BehindBy |-> b] : a \in 0 .. MaxAhead, b \in 0 .. 1}
\* The comparison step: the counts are kept when the call succeeded.
StepCompare(fk, c) == IF c.ok THEN [fk EXCEPT !.Ahead = c.AheadBy, !.Behind = c.BehindBy] ELSE fk

\* Responses of a commit-date call: failed, or a timestamp.
DateFail == [ok |-> FALSE, date |-> <<>>]
DateResponses == {DateFail, [ok |-> TRUE, date |-> IsoDate]}
\* The two recency fetches.
StepDates(fk, fd, ud) ==
    LET g == IF fd.ok THEN [fk EXCEPT !.ForkLastCommit = formatDate(fd.date),
                                      !.ForkLastAgo = relativeTime(fd.date)]
             ELSE fk
    IN IF ud.ok THEN [g EXCEPT !.UpstreamLast = formatDate(ud.date),
                               !.UpstreamAgo = relativeTime(ud.date)]
       ELSE g

\* Responses of getBranches' calls: the default branch (or a failure), the branch
\* list in the API's order (or a failure), and per branch the commit-date call.
BranchLists == {<<>>, <<"main">>, <<"feature", "main">>, <<"feature", "fix", "main">>}
BranchResponses ==
    {[defOK |-> d, def |-> "main", listOK |-> l, names |-> ns, dates |-> ds] :
        d \in BOOLEAN, l \in BOOLEAN, ns \in BranchLists,
        ds \in [{"feature", "fix"} -> DateResponses]}
\* The responses when every call succeeds and the branches are ns.
DateOK == [ok |-> TRUE, date |-> IsoDate]
BranchesOf(ns) ==
    [defOK |-> TRUE, def |-> "main", listOK |-> TRUE, names |-> ns,
     dates |-> [b \in {"feature", "fix"} |-> DateOK]]
\* Mutant of MkBranch: the default branch is given a commit date as well.
MkBranchDated(name, br) ==
    LET d == IF name = br.def THEN DateOK ELSE br.dates[name]
    IN [Name |-> name,
        Date |-> IF d.ok THEN formatDate(d.date) ELSE <<>>,
        DateAgo |-> IF d.ok THEN relativeTime(d.date) ELSE <<>>,
        IsDefault |-> name = br.def, PR |-> NoPR]
\* One Branch of getBranches' loop: the commit date is looked up for every
\* branch but the default one.
MkBranch(name, br) ==
    LET isDef == name = br.def
        d == IF isDef THEN DateFail ELSE br.dates[name]
    IN [Name |-> name,
        Date |-> IF d.ok THEN formatDate(d.date) ELSE <<>>,
        DateAgo |-> IF d.ok THEN relativeTime(d.date) ELSE <<>>,
        IsDefault |-> isDef, PR |-> NoPR]
\* getBranches: (branches, err).
getBranches(br) ==
    IF ~br.defOK \/ ~br.listOK THEN [branches |-> <<>>, err |-> TRUE]
    ELSE [branches |-> [i \in DOMAIN br.names |-> MkBranch(br.names[i], br)], err |-> FALSE]
\* Mutant of StepBranches: a failed listing leaves the default branch alone in
\* the list.
StepBranchesGuess(fk, br) ==
    LET r == getBranches(br)
    IN IF r.err
       THEN [fk EXCEPT !.Branches = <<[Name |-> fk.DefaultBranch, Date |-> <<>>, DateAgo |-> <<>>,
                                       IsDefault |-> TRUE, PR |-> NoPR]>>]
       ELSE [fk EXCEPT !.Branches = r.branches]

\* The calls of getBranches that were made and failed: the default-branch
\* call, then the list call, then one commit call per non-default branch.
FailedBranchCalls(br) ==
    IF ~br.defOK \/ ~br.listOK THEN {"branch listing"}
    ELSE {"date of " \o b : b \in {n \in Range(br.names) : n # br.def /\ ~br.dates[n].ok}}
StepBranches(fk, br) ==
    LET r == getBranches(br) IN IF r.err THEN fk ELSE [fk EXCEPT !.Branches = r.branches]

\* Mutant of MoreRelevant: a merged pull request replaces whatever was kept.
MoreRelevantLoose(pr, existing) == pr.State = PRStateOpen \/ pr.State = PRStateMerged

\* linkPRsToBranches' test for replacing the pull request kept for a branch:
\* Open > Merged > Closed.
MoreRelevant(pr, existing) ==
    pr.State = PRStateOpen \/ (pr.State = PRStateMerged /\ existing.State = PRStateClosed)

\* linkPRsToBranches' first loop: the map from branch name to the kept pull request.
RECURSIVE BranchPRs(_, _)
BranchPRs(m, prs) ==
    IF prs = <<>> THEN m
    ELSE LET pr == Head(prs)
             keep == pr.Ref \in DOMAIN m /\ ~MoreRelevant(pr, m[pr.Ref])
             m2 == IF keep THEN m
                   ELSE [k \in DOMAIN m \cup {pr.Ref} |-> IF k = pr.Ref THEN NewPR(pr) ELSE m[k]]
         IN BranchPRs(m2, Tail(prs))

\* linkPRsToBranches: each branch gets the pull request kept for its name.
linkPRsToBranches(fk, prs) ==
    LET m == BranchPRs([k \in {} |-> NoPR], prs)
    IN [fk EXCEPT !.Branches =
          [i \in DOMAIN fk.Branches |->
             IF fk.Branches[i].Name \in DOMAIN m
             THEN [fk.Branches[i] EXCEPT !.PR = m[fk.Branches[i].Name]]
             ELSE fk.Branches[i]]]

\* The two counts the categorization loop takes from the branches.
NonDefaultBranches(fk) == Cardinality({i \in DOMAIN fk.Branches : ~fk.Branches[i].IsDefault})
HasOpenPR(fk) ==
    \E i \in DOMAIN fk.Branches : ~fk.Branches[i].PR.nil /\ fk.Branches[i].PR.State = PRStateOpen

\* Mutant of CategoryFor: an open pull request does not count.
CategoryForNoPR(ahead, nonDefaultBranches, hasOpenPR) ==
    IF ahead > 0 THEN CategoryMaintained
    ELSE IF nonDefaultBranches > 0 THEN CategoryContribution
    ELSE CategoryUntouched

\* The switch that determines the category.
CategoryFor(ahead, nonDefaultBranches, hasOpenPR) ==
    IF ahead > 0 THEN CategoryMaintained
    ELSE IF nonDefaultBranches > 0 \/ hasOpenPR THEN CategoryContribution
    ELSE CategoryUntouched

\* The categorization step.
Categorize(fk) ==
    LET c == CategoryFor(fk.Ahead, NonDefaultBranches(fk), HasOpenPR(fk))
    IN [fk EXCEPT !.Category = c, !.Untouched = (c = CategoryUntouched)]

\* progressUpdate.
Update(r, action) == [repo |-> r.Name, action |-> action]

\* The responses one analysis gets from the API, call by call.
Script(c, fd, ud, br, search) == [cmp |-> c, forkDate |-> fd, upDate |-> ud, br |-> br, search |-> search]

\* analyzeForkWithProgress from entry to return, for the responses of a script:
\* the set of outcomes (fork, err, disk afterwards, panic) the call may have.
analyzeFork(r, sc, d, e, bypass, now) ==
    LET f0 == NewFork(r)
        f2 == IF r.Parent.nil THEN f0
              ELSE StepDates(StepCompare(f0, sc.cmp), sc.forkDate, sc.upDate)
        f3 == StepBranches(f2, sc.br)
    IN IF r.Parent.nil
       THEN {[fork |-> Categorize(f3), err |-> "nil", disk |-> d, panic |-> FALSE]}
       ELSE {[fork |-> Categorize(IF o.err \/ o.panic THEN f3 ELSE linkPRsToBranches(f3, o.prs)),
              err |-> "nil", disk |-> o.disk, panic |-> o.panic] :
             o \in getPRsForFork(d, e, bypass, r.Parent.FullName, sc.search, now)}

\* ------------------------------------------------------------------- state
VARIABLES
    disk,      \* the cache directory: file name -> file
    fs,        \* the file system's condition (see HealthyFS)
    clock,     \* time.Now(), counted in calls
    crashed,   \* the process died of a panic
    call,      \* the last call of the cache store made from outside, with what it saw and returned
    noCache,   \* the --no-cache flag
    repo,      \* analyzeForkWithProgress: the repository under analysis
    fork,      \* analyzeForkWithProgress: the Fork f being filled in
    apc,       \* analyzeForkWithProgress: the step the call is at
    prsOut,    \* analyzeForkWithProgress: the prs getPRsForFork returned
    prsErr,    \* analyzeForkWithProgress: whether getPRsForFork returned an error
    progress,  \* the progress channel's buffer
    failed,    \* history: the remote calls of this analysis that failed
    mpc,       \* run: the statement the main flow is at
    forks,     \* run: the enumerated repositories
    results,   \* run: results[i], the Fork stored for index i
    errors,    \* run: errors[i], the error stored for index i
    wpc,       \* worker i: the statement its goroutine is at
    analyzed,  \* worker i: the Fork its analyzeForkWithProgress returned
    werr,      \* worker i: the error its analyzeForkWithProgress returned
    sem,       \* number of tokens in the sem channel
    wg,        \* the WaitGroup's counter
    completed, \* the completed counter
    doneClosed,     \* close(done) has run
    progressClosed, \* close(progress) has run
    finalResults,   \* run: the Forks collected after the barrier
    warnings,       \* run: the warnings printed while collecting
    inject,    \* the indices whose top-level call a test forces to fail
    holders,   \* history: the workers whose token is in the sem channel
    resWriters,     \* history: the workers that wrote results[i], in order
    errWriters,     \* history: the workers that wrote errors[i], in order
    remote,    \* what GitHub holds during the run: per fork, its repository and the responses its analysis gets
    disk0,     \* history: the cache directory as the run found it
    asProfile, \* the --as flag ("" when not given)
    showAll,   \* the --all flag
    runErr,    \* the error run returns
    effects,   \* history: how often the run authenticated, listed, analyzed, sent progress, fetched PRs
    shown,     \* run: results after the filter and the sort
    racers,    \* two concurrent getPRsForFork calls on one upstream: where each is, what it holds
    writeLog,  \* history: the calls whose os.WriteFile has written, in order
    sent,      \* worker i: how many progress updates its analysis has sent
    rpc,       \* the reporter goroutine: the statement it is at
    lastUpdate, \* the reporter goroutine: the update it received last
    drawn,     \* history: when the reporter redrew the status line, before or after close(done)
    tmpDir,    \* ghRunner.tmpDir: the credential directory of this run (0 when "")
    tmpDirs,   \* the credential directories that exist in the temporary directory
    made,      \* history: how many directories os.MkdirTemp has made
    ghEnv,     \* history: the GH_CONFIG_DIR of every gh call made (0 when inherited)
    adviceCache,    \* git-explain: the llm-advice cache directory, file name -> file
    adviceLog,      \* history: the calls made of the llm-advice package, in order
    gitConfig,      \* git-as: the global git config, identity.<name>.<key> -> value
    lastEdit,       \* history: the last call made of the identity package, with the config it found
    edits,          \* history: how many calls of the identity package were made
    adpc,           \* AnalyzeDirectory: the statement its caller's flow is at
    adEntries,      \* AnalyzeDirectory: what os.ReadDir(path) returns
    adDirs,         \* AnalyzeDirectory: dirs
    adResults,      \* AnalyzeDirectory: results
    gpc,            \* AnalyzeDirectory: goroutine i, the statement it is at
    adSem,          \* AnalyzeDirectory: how many tokens sem holds
    adWg,           \* AnalyzeDirectory: the counter of wg
    adOut           \* AnalyzeDirectory: what it returned

storeVars == <<disk, fs, clock, crashed>>
harnessVars == <<call>>
forkVars == <<noCache, repo, fork, apc, prsOut, prsErr, progress, failed>>
runVars == <<mpc, forks, results, errors, wpc, analyzed, werr, sem, wg, completed,
             doneClosed, progressClosed, finalResults, warnings, inject, holders,
             resWriters, errWriters>>
inputVars == <<remote, disk0, asProfile, showAll>>
lateVars == <<runErr, effects, shown>>
raceVars == <<racers, writeLog>>
reporterVars == <<sent, rpc, lastUpdate, drawn>>
identityVars == <<tmpDir, tmpDirs, made, ghEnv>>
adviceVars == <<adviceCache, adviceLog>>
configVars == <<gitConfig, lastEdit, edits>>
dirVars == <<adpc, adEntries, adDirs, adResults, gpc, adSem, adWg, adOut>>
toolVars == <<adviceVars, configVars, dirVars>>
vars == <<storeVars, harnessVars, forkVars, runVars, inputVars, lateVars, raceVars, reporterVars,
          identityVars, toolVars>>
\* What a call of the cache store from outside leaves alone, and what a step of
\* the analyzer leaves alone besides the store.
offHarness == <<forkVars, runVars, inputVars, lateVars, raceVars, reporterVars, identityVars,
               toolVars>>
offFork == <<harnessVars, runVars, inputVars, lateVars, raceVars, reporterVars, identityVars,
            toolVars>>
\* What a step of run leaves alone besides the store and its own variables.
offGh == <<harnessVars, forkVars, inputVars, raceVars, reporterVars, toolVars>>
offRun == <<offGh, identityVars>>

\* first and mid are kept by a repeated call: what the first call returned and
\* the file it left.
NoCall == [op |-> "none", up |-> <<>>, bypass |-> FALSE, resp |-> RespFail,
           loaded |-> NewPRCache, prs |-> <<>>, err |-> FALSE, before |-> FileMissing,
           first |-> <<>>, mid |-> FileMissing, saveErr |-> FALSE]

\* No cache file exists yet.
StoreInit ==
    /\ disk = [fn \in FileNames |-> FileMissing]
    /\ fs = HealthyFS
    /\ clock = 0
    /\ crashed = FALSE

\* --------------------------------------------------- calls of the cache store
\* The lists of pull requests a caller hands to savePRCache.
PRLists == {ns \in NodeLists : \A i \in DOMAIN ns : ns[i].Number # 0}

\* One call of getPRsForFork for a fork of `up`, under either setting of
\* --no-cache and any search response.
CallGetPRs(up) ==
    /\ ~crashed /\ clock < MaxOps /\ call.op = "none"
    /\ \E bypass \in BOOLEAN, resp \in SearchResponses :
         \E o \in getPRsForFork(disk, fs, bypass, up, resp, clock + 1) :
            /\ disk' = o.disk
            /\ crashed' = o.panic
            /\ call' = [NoCall EXCEPT !.op = "getPRs", !.up = up, !.bypass = bypass,
                                      !.resp = resp,
                                      !.loaded = StartCache(disk, fs, bypass, up),
                                      !.prs = o.prs, !.err = o.err,
                                      !.saveErr = o.saveErr,
                                      !.before = disk[cacheFileName(up)]]
    /\ clock' = clock + 1
    /\ fs' = fs
    /\ UNCHANGED offHarness

\* The same getPRsForFork once more: same fork, same flag, same search response.
CallGetPRsAgain(up) ==
    /\ ~crashed /\ clock < MaxOps
    /\ call.op = "getPRs" /\ call.up = up /\ call.resp.kind = "ok"
    /\ \E o \in getPRsForFork(disk, fs, call.bypass, up, call.resp, clock + 1) :
            /\ disk' = o.disk
            /\ crashed' = o.panic
            /\ call' = [call EXCEPT !.op = "getPRsAgain",
                                    !.loaded = StartCache(disk, fs, call.bypass, up),
                                    !.prs = o.prs, !.err = o.err,
                                    !.saveErr = o.saveErr,
                                    !.first = call.prs, !.mid = disk[cacheFileName(up)]]
    /\ clock' = clock + 1
    /\ fs' = fs
    /\ UNCHANGED offHarness

\* One call of savePRCache(up, prs).
CallSave(up) ==
    /\ ~crashed /\ clock < MaxOps /\ call.op = "none"
    /\ \E prs \in PRLists :
         LET sv == savePRCache(disk, fs, up, prs, clock + 1)
         IN /\ disk' = sv.disk
            /\ crashed' = sv.panic
            /\ call' = [NoCall EXCEPT !.op = "save", !.up = up, !.prs = prs,
                                      !.err = sv.err, !.before = disk[cacheFileName(up)]]
    /\ clock' = clock + 1
    /\ fs' = fs
    /\ UNCHANGED offHarness

\* One call of loadPRCache(up). When it follows a savePRCache of the same
\* upstream, the record keeps what that call was given and found.
CallLoad(up) ==
    /\ ~crashed /\ clock < MaxOps /\ call.op \in {"none", "save"}
    /\ LET ld == loadPRCache(disk, fs, up)
           follows == call.op = "save" /\ call.up = up /\ ~call.err
       IN call' = [NoCall EXCEPT !.op = IF follows THEN "loadAfterSave" ELSE "load",
                                 !.up = up, !.loaded = ld.cache, !.err = ld.err,
                                 !.prs = IF follows THEN call.prs ELSE <<>>,
                                 !.before = IF follows THEN call.before ELSE disk[cacheFileName(up)]]
    /\ clock' = clock + 1
    /\ UNCHANGED <<disk, fs, crashed>>
    /\ UNCHANGED offHarness

\* The caller is done with what the last call returned.
Return ==
    /\ call.op # "none"
    /\ call' = NoCall
    /\ UNCHANGED <<storeVars, offHarness>>

\* No analysis is under way.
ForkIdle ==
    /\ noCache = FALSE /\ repo = RepoSolo /\ fork = ZeroFork /\ apc = "idle"
    /\ prsOut = <<>> /\ prsErr = FALSE /\ progress = <<>> /\ failed = {}

\* Neither git-explain nor git-as has been used: no advice is cached and the
\* global git config holds no identity.
PackagesIdle ==
    /\ adviceCache = <<>> /\ adviceLog = <<>>
    /\ gitConfig = <<>> /\ lastEdit = <<>> /\ edits = 0
DirIdle ==
    /\ adpc = "idle" /\ adEntries = <<>> /\ adDirs = <<>> /\ adResults = <<>>
    /\ gpc = <<>> /\ adSem = 0 /\ adWg = 0 /\ adOut = <<>>
ToolsIdle == PackagesIdle /\ DirIdle

\* No run is under way.
GhIdle ==
    /\ mpc = "idle" /\ forks = <<>> /\ results = <<>> /\ errors = <<>>
    /\ wpc = <<>> /\ analyzed = <<>> /\ werr = <<>>
    /\ sem = 0 /\ wg = 0 /\ completed = 0
    /\ doneClosed = FALSE /\ progressClosed = FALSE
    /\ finalResults = <<>> /\ warnings = <<>> /\ inject = {} /\ holders = {}
    /\ resWriters = <<>> /\ errWriters = <<>>
    /\ remote = <<>> /\ disk0 = disk /\ asProfile = "" /\ showAll = FALSE
    /\ runErr = [kind |-> "nil", text |-> <<>>]
    /\ effects = [auths |-> 0, lists |-> 0, analyses |-> 0, events |-> 0, prFetches |-> 0,
                  ghFailed |-> "none"]
    /\ shown = <<>>
    /\ racers = <<>> /\ writeLog = <<>>
    /\ sent = <<>> /\ rpc = "idle" /\ lastUpdate = [repo |-> <<>>, action |-> ""]
    /\ drawn = {}
    /\ tmpDir = 0 /\ tmpDirs = {} /\ made = 0 /\ ghEnv = {}
RunIdle == GhIdle /\ ToolsIdle

CacheInit == StoreInit /\ call = NoCall /\ ForkIdle /\ RunIdle
CacheNext ==
    \/ CallGetPRs(UpLib)
    \/ CallGetPRsAgain(UpLib)
    \/ CallSave(UpLib)
    \/ CallLoad(UpLib)
    \/ Return
SpecCache == CacheInit /\ [][CacheNext]_vars

\* ----------------------------------------------- properties of the PR cache
\* The members of the "prs" object of an upstream's cache file.
DiskEntries(up) ==
    LET file == disk[cacheFileName(up)]
    IN IF file.kind = "doc" THEN Range(file.prs) ELSE {}

\* The pull requests the last search returned.
CallFresh == FreshPRs(call.resp.nodes)
\* The last call was a getPRsForFork whose search succeeded.
MergedCall == call.op = "getPRs" /\ call.resp.kind = "ok" /\ ~crashed
\* How many entries of a list carry the number n.
CountOf(prs, n) == Cardinality({j \in DOMAIN prs : prs[j].Number = n})

\* C2: every entry of every cache file has state MERGED or CLOSED; an OPEN pull
\* request is never written to a cache.
C2_OnlyTerminalCached ==
    \A up \in Upstreams : \A m \in DiskEntries(up) : m.val.State \in {PRStateMerged, PRStateClosed}

\* C2 witness: a getPRsForFork whose search returned an OPEN pull request has
\* written a cache file that holds an entry.
C2_Witness ==
    /\ MergedCall
    /\ \E i \in DOMAIN CallFresh : CallFresh[i].State = PRStateOpen
    /\ DiskEntries(call.up) # {}

\* C3: a number both in the live result and in the loaded cache is once in the
\* merged list, with the live state, title, URL and branch; when that state is
\* terminal the cache file afterwards holds the live values for the number.
C3_LiveTakesPrecedence ==
    MergedCall =>
      \A i \in DOMAIN CallFresh :
        LET pr == CallFresh[i]
        IN pr.Number \in DOMAIN call.loaded.PRs =>
             /\ CountOf(call.prs, pr.Number) = 1
             /\ \A j \in DOMAIN call.prs :
                  call.prs[j].Number = pr.Number =>
                     /\ call.prs[j].State = pr.State /\ call.prs[j].Title = pr.Title
                     /\ call.prs[j].URL = pr.URL /\ call.prs[j].Ref = pr.Ref
             /\ IsTerminal(pr.State) =>
                  {m \in DiskEntries(call.up) : m.key = pr.Number} =
                     {[key |-> pr.Number,
                       val |-> [Number |-> pr.Number, Title |-> pr.Title, State |-> pr.State,
                                URL |-> pr.URL, Branch |-> pr.Ref]]}

\* C3 witness: the cache held a number as CLOSED, from another branch, and the
\* search returned it as MERGED.
C3_Witness ==
    /\ MergedCall
    /\ \E i \in DOMAIN CallFresh :
         /\ CallFresh[i].Number \in DOMAIN call.loaded.PRs
         /\ CallFresh[i].State = PRStateMerged
         /\ call.loaded.PRs[CallFresh[i].Number].State = PRStateClosed
         /\ call.loaded.PRs[CallFresh[i].Number].Branch # CallFresh[i].Ref

\* C4: after a successful search every cached number the live result lacks is
\* once in the merged list, with the cached state and branch; the numbers of the
\* merged list are the live and the cached numbers; the live entries come first,
\* in their order.
C4_CacheFillsGaps ==
    MergedCall =>
      /\ \A k \in DOMAIN call.loaded.PRs :
           CountOf(CallFresh, k) = 0 =>
             /\ CountOf(call.prs, k) = 1
             /\ \A j \in DOMAIN call.prs :
                  call.prs[j].Number = k =>
                     /\ call.prs[j].State = call.loaded.PRs[k].State
                     /\ call.prs[j].Ref = call.loaded.PRs[k].Branch
      /\ {call.prs[j].Number : j \in DOMAIN call.prs} =
            {CallFresh[i].Number : i \in DOMAIN CallFresh} \cup DOMAIN call.loaded.PRs
      /\ Len(call.prs) >= Len(CallFresh)
      /\ SubSeq(call.prs, 1, Len(CallFresh)) = CallFresh

\* C4 witness: the search returned a pull request and the loaded cache held a
\* MERGED one of another number.
C4_Witness ==
    /\ MergedCall
    /\ CallFresh # <<>>
    /\ \E k \in DOMAIN call.loaded.PRs :
         CountOf(CallFresh, k) = 0 /\ call.loaded.PRs[k].State = PRStateMerged

\* The cache file was absent or held no entry.
WasEmpty(file) == file.kind = "missing" \/ (file.kind = "doc" /\ file.prs = <<>>)

\* C5: loadPRCache after savePRCache(S) on an empty cache returns the merged and
\* closed pull requests of S, keyed by number, fields unchanged, and nothing else.
C5_CacheRoundTrip ==
    (call.op = "loadAfterSave" /\ WasEmpty(call.before)) =>
      /\ ~call.err /\ ~call.loaded.nil
      /\ DOMAIN call.loaded.PRs =
            {call.prs[i].Number : i \in {j \in DOMAIN call.prs : IsTerminal(call.prs[j].State)}}
      /\ \A i \in DOMAIN call.prs :
           IsTerminal(call.prs[i].State) =>
              call.loaded.PRs[call.prs[i].Number] =
                 [Number |-> call.prs[i].Number, Title |-> call.prs[i].Title,
                  State |-> call.prs[i].State, URL |-> call.prs[i].URL,
                  Branch |-> call.prs[i].Ref]

\* C5 witness: an OPEN and a MERGED pull request were saved to an absent cache
\* file and the load returned one entry.
C5_Witness ==
    /\ call.op = "loadAfterSave" /\ call.before.kind = "missing"
    /\ \E i, j \in DOMAIN call.prs :
         call.prs[i].State = PRStateOpen /\ call.prs[j].State = PRStateMerged
    /\ Cardinality(DOMAIN call.loaded.PRs) = 1

\* The entries of a cache file.
FileEntries(file) == IF file.kind = "doc" THEN Range(file.prs) ELSE {}
\* The numbers of the merged and closed pull requests of a list.
TerminalNumbers(prs) == {prs[i].Number : i \in {j \in DOMAIN prs : IsTerminal(prs[j].State)}}
\* The numbers and states of a list, in order.
NumbersAndStates(prs) == [i \in DOMAIN prs |-> <<prs[i].Number, prs[i].State>>]

\* C16: under --no-cache a successful search is returned as it is, with no cached
\* pull request added; the save still happens: every merged or closed pull
\* request of the result is in the cache file afterwards, and every entry the
\* file held for a number the result has no terminal pull request of is kept.
C16_BypassStillPersists ==
    (MergedCall /\ call.op = "getPRs" /\ call.bypass) =>
      /\ ~call.err
      /\ call.prs = CallFresh
      /\ \A i \in DOMAIN CallFresh :
           IsTerminal(CallFresh[i].State) =>
              [key |-> CallFresh[i].Number, val |-> ToCachedPR(CallFresh[i])] \in DiskEntries(call.up)
      /\ \A m \in FileEntries(call.before) :
           m.key \notin TerminalNumbers(CallFresh) => m \in DiskEntries(call.up)

\* C16 witness: under --no-cache the search returned a MERGED pull request while
\* the file held an entry of another number.
C16_Witness ==
    /\ MergedCall /\ call.op = "getPRs" /\ call.bypass
    /\ \E i \in DOMAIN CallFresh : CallFresh[i].State = PRStateMerged
    /\ \E m \in FileEntries(call.before) : CountOf(CallFresh, m.key) = 0

\* C17: no step removes a number from a cache file, and a save leaves every
\* entry as it was whose number is not that of a merged or closed pull request
\* of the list being saved.
C17_PersistOverlays ==
    [][\A up \in Upstreams :
          /\ {m.key : m \in DiskEntries(up)} \subseteq {m.key : m \in DiskEntries(up)'}
          /\ \A m \in DiskEntries(up) :
                (call'.up = up /\ m.key \in TerminalNumbers(call'.prs)) \/ m \in DiskEntries(up)']_vars

\* C17 witness: a savePRCache with a merged or closed pull request ran on a file
\* that held an entry of another number.
C17_Witness ==
    /\ call.op = "save" /\ ~call.err /\ ~crashed
    /\ TerminalNumbers(call.prs) # {}
    /\ \E m \in FileEntries(call.before) : m.key \notin TerminalNumbers(call.prs)

\* The last call repeated a getPRsForFork that had started from an empty cache.
RepeatedCall == call.op = "getPRsAgain" /\ WasEmpty(call.before) /\ ~crashed

\* C20 as stated: after the second of two identical runs of load, merge and
\* persist from an empty cache, the cache file is what it was after the first,
\* and the second list has the numbers and states of the first.
C20_Idempotence ==
    RepeatedCall =>
      /\ disk[cacheFileName(call.up)] = call.mid
      /\ NumbersAndStates(call.prs) = NumbersAndStates(call.first)

\* C20 amended: the entries of the cache file are what they were after the first
\* run (the file's updated_at is the time of the second save), and the second
\* list has the numbers and states of the first.
C20_IdempotentEntries ==
    RepeatedCall =>
      /\ call.mid.kind = "doc"
      /\ disk[cacheFileName(call.up)].kind = "doc"
      /\ disk[cacheFileName(call.up)].prs = call.mid.prs
      /\ disk[cacheFileName(call.up)].updated_at > call.mid.updated_at
      /\ NumbersAndStates(call.prs) = NumbersAndStates(call.first)

\* C20 witness: the repeated search held a MERGED and an OPEN pull request.
C20_Witness ==
    /\ RepeatedCall
    /\ \E i, j \in DOMAIN CallFresh :
         CallFresh[i].State = PRStateMerged /\ CallFresh[j].State = PRStateOpen

\* Cache files earlier runs may have left for the upstream.
SeedLists ==
    {<<GhPR(1, PRStateClosed, "feature")>>,
     <<GhPR(1, PRStateMerged, "feature"), GhPR(2, PRStateClosed, "feature")>>}
SeedFiles ==
    {FileMissing} \cup {Marshal([NewPRCache EXCEPT !.PRs = Overlay(EmptyMap, l)]) : l \in SeedLists}

\* ------------------------------------------- the PR cache on a faulty disk
\* The cache functions called as in SpecCache, on a file system with one fault
\* (or none) and a cache file that is absent, malformed, unreadable or left by
\* an earlier run.
FaultyFSs ==
    {HealthyFS,
     [HealthyFS EXCEPT !.cacheDirOK = FALSE],
     [HealthyFS EXCEPT !.mkdirOK = FALSE],
     [HealthyFS EXCEPT !.writeOK = FALSE]}
FaultInit ==
    /\ disk \in [FileNames -> SeedFiles \cup {FileCorrupt, FileUnreadable}]
    /\ disk[cacheFileName(UpApp)] = FileMissing
    /\ fs \in FaultyFSs
    /\ clock = 0 /\ crashed = FALSE
    /\ call = NoCall /\ ForkIdle /\ RunIdle
SpecFault == FaultInit /\ [][CacheNext]_vars

\* Reading the cache file fails: it is absent, malformed or unreadable, or the
\* cache directory does not resolve.
ReadFails(file) == file.kind \in {"missing", "corrupt", "unreadable"} \/ ~fs.cacheDirOK

\* C14 as stated: whatever way the cache read fails, getPRsForFork and
\* savePRCache do what they do on an empty cache: nothing panics, a successful
\* search is returned as it is with no error, a failed one is an error with no
\* pull request (which the analysis skips over).
C14_ReadFailureNotSurfaced ==
    (call.op \in {"getPRs", "save"} /\ ReadFails(call.before)) =>
      /\ ~crashed
      /\ call.op = "getPRs" =>
           IF call.resp.kind = "ok" THEN ~call.err /\ call.prs = CallFresh
           ELSE call.err /\ call.prs = <<>>

\* Forks with nothing linked yet, to link a list of pull requests to.
ProbeForks == {StepBranches(NewFork(RepoLib), BranchesOf(ns)) : ns \in BranchLists}
\* The Fork analyzeForkWithProgress makes of fk and the pull requests prs.
Linked(fk, prs) == Categorize(linkPRsToBranches(fk, prs))
\* What the last getPRsForFork may have done had every write succeeded.
HealthyOutcomes ==
    getPRsForFork(disk, HealthyFS, call.bypass, call.up, call.resp, clock)

\* C15: when the savePRCache of a getPRsForFork returns an error, the call
\* returns no error and a list it may return when the save succeeds, and the
\* branches, linked pull requests and category made of it are those of a run
\* whose save succeeded.
C15_WriteFailureIgnored ==
    (call.op = "getPRs" /\ call.saveErr /\ ~crashed) =>
      /\ ~call.err
      /\ call.prs \in {o.prs : o \in HealthyOutcomes}
      /\ \A fk \in ProbeForks :
           Linked(fk, call.prs) \in {Linked(fk, o.prs) : o \in HealthyOutcomes}

\* C15 witness: the write failed after a search with a MERGED pull request was
\* merged with a cache holding another number.
C15_Witness ==
    /\ call.op = "getPRs" /\ call.saveErr /\ ~crashed
    /\ \E i \in DOMAIN CallFresh : CallFresh[i].State = PRStateMerged
    /\ Len(call.prs) > Len(CallFresh)

\* --------------------------------------------------- one analysis of a fork
\* Capacity of the progress channel.
ProgressCap == 100

\* progress <- progressUpdate{...}: blocks while the buffer is full.
CanSend == Len(progress) < ProgressCap
Send(action) == progress' = Append(progress, Update(repo, action))

\* Mutant of FirstStep: the comparison is made whether or not there is a parent.
FirstStepCompare(r) == "compare"
\* The step after the Fork is set up: the upstream steps are skipped when the
\* repository has no parent.
FirstStep(r) == IF r.Parent.nil THEN "branches" ELSE "compare"

\* analyzeForkWithProgress is entered for a repository.
AnalyzeBegin ==
    /\ apc = "idle" /\ ~crashed
    /\ \E r \in Repos :
         /\ repo' = r
         /\ fork' = NewFork(r)
         /\ apc' = FirstStep(r)
    /\ UNCHANGED <<noCache, prsOut, prsErr, progress, failed, storeVars, offFork>>

\* The comparison with upstream.
AnalyzeCompare ==
    /\ apc = "compare" /\ ~crashed /\ CanSend
    /\ Send("comparing with upstream")
    /\ \E c \in CmpResponses :
         /\ fork' = StepCompare(fork, c)
         /\ failed' = IF c.ok THEN failed ELSE failed \cup {"comparison"}
    /\ apc' = "dates"
    /\ UNCHANGED <<noCache, repo, prsOut, prsErr, storeVars, offFork>>

\* The last commit dates of the fork and of upstream.
AnalyzeDates ==
    /\ apc = "dates" /\ ~crashed /\ CanSend
    /\ Send("checking commit dates")
    /\ \E fd \in DateResponses, ud \in DateResponses :
         /\ fork' = StepDates(fork, fd, ud)
         /\ failed' = failed \cup (IF fd.ok THEN {} ELSE {"fork recency"})
                              \cup (IF ud.ok THEN {} ELSE {"upstream recency"})
    /\ apc' = "branches"
    /\ UNCHANGED <<noCache, repo, prsOut, prsErr, storeVars, offFork>>

\* The branch list.
AnalyzeBranches ==
    /\ apc = "branches" /\ ~crashed /\ CanSend
    /\ Send("fetching branches")
    /\ \E br \in BranchResponses :
         /\ fork' = StepBranches(fork, br)
         /\ failed' = failed \cup FailedBranchCalls(br)
    /\ apc' = IF repo.Parent.nil THEN "categorize" ELSE "prs"
    /\ UNCHANGED <<noCache, repo, prsOut, prsErr, storeVars, offFork>>

\* getPRsForFork and, when it returned no error, linkPRsToBranches.
AnalyzePRs ==
    /\ apc = "prs" /\ ~crashed /\ CanSend
    /\ Send("fetching PRs")
    /\ \E resp \in SearchResponses :
         \E o \in getPRsForFork(disk, fs, noCache, repo.Parent.FullName, resp, clock + 1) :
            /\ disk' = o.disk
            /\ crashed' = o.panic
            /\ prsOut' = o.prs
            /\ prsErr' = o.err
            /\ fork' = IF o.err \/ o.panic THEN fork ELSE linkPRsToBranches(fork, o.prs)
            /\ failed' = IF resp.kind = "fail" THEN failed \cup {"PR search"} ELSE failed
    /\ clock' = clock + 1
    /\ apc' = "categorize"
    /\ UNCHANGED <<fs, noCache, repo, offFork>>

\* The categorization, and the return of the Fork.
AnalyzeCategorize ==
    /\ apc = "categorize" /\ ~crashed
    /\ fork' = Categorize(fork)
    /\ apc' = "returned"
    /\ prsOut' = <<>> /\ prsErr' = FALSE
    /\ UNCHANGED <<noCache, repo, progress, failed, storeVars, offFork>>

\* One run analyzes one fork, under either setting of --no-cache, over a cache
\* directory an earlier run may have filled.
ForkInit ==
    /\ disk \in [FileNames -> SeedFiles]
    /\ disk[cacheFileName(UpApp)] = FileMissing
    /\ fs = HealthyFS /\ clock = 0 /\ crashed = FALSE
    /\ call = NoCall
    /\ noCache \in BOOLEAN
    /\ repo = RepoSolo /\ fork = ZeroFork /\ apc = "idle"
    /\ prsOut = <<>> /\ prsErr = FALSE /\ progress = <<>> /\ failed = {}
    /\ RunIdle
ForkNext ==
    \/ AnalyzeBegin \/ AnalyzeCompare \/ AnalyzeDates \/ AnalyzeBranches
    \/ AnalyzePRs \/ AnalyzeCategorize
SpecFork == ForkInit /\ [][ForkNext]_vars

\* C1: the category of a returned Fork is maintained when ahead > 0, else
\* contribution when it has a non-default branch or a branch whose linked pull
\* request is OPEN, else untouched.
C1_CategoryFunction ==
    apc = "returned" =>
      LET nd == Cardinality({i \in DOMAIN fork.Branches : ~fork.Branches[i].IsDefault})
          open == \E i \in DOMAIN fork.Branches :
                     ~fork.Branches[i].PR.nil /\ fork.Branches[i].PR.State = "OPEN"
      IN /\ fork.Category \in {"maintained", "contribution", "untouched"}
         /\ fork.Category = "maintained" <=> fork.Ahead > 0
         /\ fork.Category = "contribution" <=> (fork.Ahead <= 0 /\ (nd > 0 \/ open))
         /\ fork.Category = "untouched" <=> (fork.Ahead <= 0 /\ nd = 0 /\ ~open)

\* C1 witness: a fork that is not ahead and has only its default branch, with an
\* OPEN pull request linked to it, was returned.
C1_Witness ==
    /\ apc = "returned" /\ fork.Ahead = 0 /\ Len(fork.Branches) = 1
    /\ fork.Branches[1].IsDefault /\ fork.Branches[1].PR.State = "OPEN"
    /\ fork.Category = "contribution"

\* The states of the pull requests of a list that come from branch b.
CandidateStates(list, b) == {list[i].State : i \in {j \in DOMAIN list : list[j].Ref = b}}
\* The highest of a set of states under OPEN > MERGED > CLOSED.
BestState(S) == IF "OPEN" \in S THEN "OPEN" ELSE IF "MERGED" \in S THEN "MERGED" ELSE "CLOSED"

\* C6: after linkPRsToBranches, a branch that is the originating branch of some
\* pull request of the list is linked to one of them, of the highest-priority
\* state among them (OPEN > MERGED > CLOSED); any other branch has no linked
\* pull request.
C6_BranchTieBreak ==
    (apc = "categorize" /\ ~repo.Parent.nil /\ ~prsErr /\ ~crashed) =>
      \A i \in DOMAIN fork.Branches :
        LET b == fork.Branches[i]
            cand == CandidateStates(prsOut, b.Name)
        IN IF cand = {} THEN b.PR.nil
           ELSE /\ ~b.PR.nil
                /\ b.PR.State = BestState(cand)
                /\ \E j \in DOMAIN prsOut :
                     /\ prsOut[j].Ref = b.Name /\ prsOut[j].Number = b.PR.Number
                     /\ prsOut[j].State = b.PR.State /\ prsOut[j].Title = b.PR.Title
                     /\ prsOut[j].URL = b.PR.URL

\* C6 witness: the list held a CLOSED and then an OPEN pull request of one
\* branch, and the branch is linked to the OPEN one.
C6_Witness ==
    /\ apc = "categorize" /\ ~prsErr /\ Len(prsOut) >= 2
    /\ prsOut[1].State = "CLOSED" /\ prsOut[2].State = "OPEN" /\ prsOut[1].Ref = prsOut[2].Ref
    /\ \E i \in DOMAIN fork.Branches :
         fork.Branches[i].Name = prsOut[1].Ref /\ fork.Branches[i].PR.Number = prsOut[2].Number

\* ------------------------------------------------------------------ the run
\* run() from the authentication check to the collection of the results. The
\* source counts indices from 0, the model from 1.
MaxForks == 6
MaxForced == 3
maxWorkers == 5

\* The names of the enumerated forks, in the order listForks returns them.
ForkNames ==
    <<<<"b", "b">>, <<"a">>, <<"z">>, <<"a", "b">>, <<"b">>, <<"c">>, <<"a", "a">>, <<"y">>>>
NameOf(i) == ForkNames[i]
ParentApp == [nil |-> FALSE, Name |-> <<"p">>, FullName |-> UpApp, DefaultBranch |-> "main"]

\* The remote side is fixed for a run: the i-th repository listForks returns and
\* the responses its analysis gets. Every third fork has commits of its own,
\* every third a branch with an open pull request, every third is no fork of
\* anything.
ForkAt(i) ==
    MkRepo(NameOf(i), CASE i % 3 = 1 -> ParentLib [] i % 3 = 2 -> ParentApp [] OTHER -> NoParent)
ScriptAt(i) ==
    CASE i % 3 = 1 ->
           Script([ok |-> TRUE, AheadBy |-> 1, BehindBy |-> 0], DateOK, DateOK,
                  BranchesOf(<<"main">>), RespOK(<<GhPR(1, PRStateMerged, "feature")>>))
      [] i % 3 = 2 ->
           Script([ok |-> TRUE, AheadBy |-> 0, BehindBy |-> 1], DateOK, DateFail,
                  BranchesOf(<<"feature", "main">>), RespOK(<<GhPR(2, PRStateOpen, "feature")>>))
      [] OTHER ->
           Script(CmpFail, DateFail, DateFail, BranchesOf(<<"main">>), RespFail)

\* What GitHub holds about the first n forks.
Remote(i) == [repo |-> ForkAt(i), script |-> ScriptAt(i)]
RemoteTable(n) == [i \in 1 .. n |-> Remote(i)]

\* The errors run returns: checkAuth's names the profile when there is one,
\* listForks' is wrapped as it came from gh.
Profiles == {"", "work", "bare", "ghost"}
\* The profiles of the global git config and their GitHub users.
ProfileStore == [p \in {"work", "bare"} |-> [GHUser |-> IF p = "work" THEN "octo" ELSE ""]]

\* setupIdentity: (err, the directory made, g.tmpDir afterwards). A missing
\* profile and one without a GitHub user fail before os.MkdirTemp; MkdirTemp may
\* fail; the write of hosts.yml may fail with the directory made and kept in
\* g.tmpDir.
setupIdentity(profile, n) ==
    IF profile \notin DOMAIN ProfileStore THEN {[ok |-> FALSE, dirMade |-> FALSE, dir |-> 0]}
    ELSE IF ProfileStore[profile].GHUser = "" THEN {[ok |-> FALSE, dirMade |-> FALSE, dir |-> 0]}
    ELSE {[ok |-> FALSE, dirMade |-> FALSE, dir |-> 0],
          [ok |-> FALSE, dirMade |-> TRUE, dir |-> n + 1],
          [ok |-> TRUE, dirMade |-> TRUE, dir |-> n + 1]}

\* ghRunner.run up to cmd.Output(): g.tmpDir afterwards, whether a directory
\* was made, whether gh was executed and with which GH_CONFIG_DIR.
ghRun(profile, dir, n) ==
    IF profile = "" THEN {[dir |-> dir, dirMade |-> FALSE, executed |-> TRUE, env |-> 0]}
    ELSE IF dir = 0
    THEN {[dir |-> o.dir, dirMade |-> o.dirMade, executed |-> o.ok, env |-> o.dir] :
            o \in setupIdentity(profile, n)}
    ELSE {[dir |-> dir, dirMade |-> FALSE, executed |-> TRUE, env |-> dir]}

\* Mutant of cleanup: the directory is left behind.
cleanupSkipped(dirs, dir) == dirs
\* ghRunner.cleanup, deferred by run: the directory of g.tmpDir is removed.
cleanup(dirs, dir) == dirs \ {dir}
NoRunErr == [kind |-> "nil", text |-> <<>>]
ErrAuth(profile) ==
    [kind |-> "auth",
     text |-> IF profile # "" THEN <<"not authenticated as profile", profile, "Run: gh auth login">>
              ELSE <<"not authenticated. Run: gh auth login">>]
ErrList == [kind |-> "list", text |-> <<"failed to list forks", "exit status 1">>]
NoEffects ==
    [auths |-> 0, lists |-> 0, analyses |-> 0, events |-> 0, prFetches |-> 0, ghFailed |-> "none"]

\* Where run goes after checkAuth.
AfterAuthIgnored(ok) == "listForks"
AfterAuth(ok) == IF ok THEN "listForks" ELSE "exit"

NoErr == "nil"
ErrForced == "forced"
Workers == 1 .. Len(forks)
\* Statements of main that come after wg.Wait() has returned.
AfterWait == {"closeDone", "closeProgress", "collect", "collected", "sort", "output", "returned"}

\* ghCmd.checkAuth(): run returns its error, and the deferred cleanup runs.
MainCheckAuth ==
    /\ mpc = "checkAuth" /\ ~crashed
    /\ \E g \in ghRun(asProfile, tmpDir, made), answer \in BOOLEAN :
        LET ok == g.executed /\ answer
            dirs == IF g.dirMade THEN tmpDirs \cup {g.dir} ELSE tmpDirs
        IN /\ g.executed \/ answer
           /\ mpc' = AfterAuth(ok)
           /\ runErr' = IF ok THEN runErr ELSE ErrAuth(asProfile)
           /\ effects' = [effects EXCEPT !.auths = @ + 1,
                                         !.ghFailed = IF ok THEN @ ELSE "auth status"]
           /\ tmpDir' = g.dir
           /\ made' = IF g.dirMade THEN made + 1 ELSE made
           /\ ghEnv' = IF g.executed THEN ghEnv \cup {g.env} ELSE ghEnv
           /\ tmpDirs' = IF AfterAuth(ok) = "exit" THEN cleanup(dirs, g.dir) ELSE dirs
    /\ UNCHANGED <<forks, results, errors, wpc, analyzed, werr, sem, wg, completed, doneClosed,
                   progressClosed, finalResults, warnings, inject, holders, resWriters, errWriters>>
    /\ UNCHANGED <<storeVars, offGh, shown>>

\* ghCmd.listForks() and what run allocates for the list it got: an error and
\* an empty list end the run.
MainListForks ==
    /\ mpc = "listForks" /\ ~crashed
    /\ \E g \in ghRun(asProfile, tmpDir, made), answer \in BOOLEAN :
        LET ok == g.executed /\ answer
            dirs == IF g.dirMade THEN tmpDirs \cup {g.dir} ELSE tmpDirs
        IN /\ g.executed \/ answer
           /\ tmpDir' = g.dir
           /\ made' = IF g.dirMade THEN made + 1 ELSE made
           /\ ghEnv' = IF g.executed THEN ghEnv \cup {g.env} ELSE ghEnv
           /\ IF ok /\ remote # <<>>
              THEN /\ mpc' = "spawn"
                   /\ forks' = [i \in DOMAIN remote |-> remote[i].repo]
                   /\ results' = [i \in DOMAIN remote |-> ZeroFork]
                   /\ errors' = [i \in DOMAIN remote |-> NoErr]
                   /\ wpc' = [i \in DOMAIN remote |-> "new"]
                   /\ analyzed' = [i \in DOMAIN remote |-> ZeroFork]
                   /\ werr' = [i \in DOMAIN remote |-> NoErr]
                   /\ resWriters' = [i \in DOMAIN remote |-> <<>>]
                   /\ errWriters' = [i \in DOMAIN remote |-> <<>>]
                   /\ effects' = [effects EXCEPT !.lists = @ + 1]
                   /\ tmpDirs' = dirs
                   /\ UNCHANGED runErr
              ELSE /\ mpc' = "exit"
                   /\ runErr' = IF ok THEN runErr ELSE ErrList
                   /\ effects' = [effects EXCEPT !.lists = @ + 1,
                                                 !.ghFailed = IF ok THEN @ ELSE "api graphql"]
                   /\ tmpDirs' = cleanup(dirs, g.dir)
                   /\ UNCHANGED <<forks, results, errors, wpc, analyzed, werr, resWriters,
                                  errWriters>>
    /\ UNCHANGED <<sem, wg, completed, doneClosed, progressClosed, finalResults, warnings,
                   inject, holders>>
    /\ UNCHANGED <<storeVars, offGh, shown>>

\* The index the i-th iteration of the spawning loop hands to its goroutine.
IdxShifted(i) == IF i > 1 THEN i - 1 ELSE i
IdxOf(i) == i

\* for i := range forks { wg.Add(1); go func(idx int) {...}(i) }: one iteration.
MainSpawn ==
    /\ mpc = "spawn" /\ ~crashed
    /\ \E i \in Workers :
        /\ wpc[i] = "new"
        /\ \A j \in 1 .. i - 1 : wpc[j] # "new"
        /\ wg' = wg + 1
        /\ wpc' = [wpc EXCEPT ![i] = "spawned"]
        /\ mpc' = IF i = Len(forks) THEN "wait" ELSE "spawn"
    /\ UNCHANGED <<forks, results, errors, analyzed, werr, sem, completed, doneClosed,
                   progressClosed, finalResults, warnings, inject, holders, resWriters, errWriters>>
    /\ UNCHANGED <<storeVars, offRun, lateVars>>

\* sem <- struct{}{} goes through while the channel's buffer has room.
AcquireLoose(s) == s <= maxWorkers
AcquireOK(s) == s < maxWorkers

WorkerAcquire(w) ==
    /\ wpc[w] = "spawned" /\ ~crashed
    /\ AcquireOK(sem)
    /\ sem' = sem + 1
    /\ holders' = holders \cup {w}
    /\ wpc' = [wpc EXCEPT ![w] = "running"]
    /\ UNCHANGED <<mpc, forks, results, errors, analyzed, werr, wg, completed, doneClosed,
                   progressClosed, finalResults, warnings, inject, resWriters, errWriters>>
    /\ UNCHANGED <<storeVars, offRun, lateVars>>

\* analyzed, err := ghCmd.analyzeForkWithProgress(&forks[idx], progress), from
\* call to return. The call's progress events are left to the reporter's model:
\* the channel's buffer outlasts the events of the forks of a run here. A forced
\* failure returns an error and a Fork the test does not constrain. The analyses
\* of a run fall within one reading of the clock.
WorkerAnalyze(w) ==
    /\ wpc[w] = "running" /\ ~crashed
    /\ LET idx == IdxOf(w) IN
       IF idx \in inject
       THEN /\ \E fk \in {ZeroFork, NewFork(forks[idx])} : analyzed' = [analyzed EXCEPT ![w] = fk]
            /\ werr' = [werr EXCEPT ![w] = ErrForced]
            /\ effects' = [effects EXCEPT !.analyses = @ + 1]
            /\ UNCHANGED storeVars
       ELSE \E o \in analyzeFork(forks[idx], remote[idx].script, disk, fs, noCache, clock) :
            /\ effects' = [effects EXCEPT
                             !.analyses = @ + 1,
                             !.events = @ + (IF forks[idx].Parent.nil THEN 1 ELSE 4),
                             !.prFetches = @ + (IF forks[idx].Parent.nil THEN 0 ELSE 1)]
            /\ analyzed' = [analyzed EXCEPT ![w] = o.fork]
            /\ werr' = [werr EXCEPT ![w] = o.err]
            /\ disk' = o.disk
            /\ crashed' = o.panic
            /\ UNCHANGED <<fs, clock>>
    /\ wpc' = [wpc EXCEPT ![w] = "returned"]
    /\ \E g \in ghRun(asProfile, tmpDir, made) :
        /\ tmpDir' = g.dir
        /\ made' = IF g.dirMade THEN made + 1 ELSE made
        /\ tmpDirs' = IF g.dirMade THEN tmpDirs \cup {g.dir} ELSE tmpDirs
        /\ ghEnv' = IF g.executed THEN ghEnv \cup {g.env} ELSE ghEnv
    /\ UNCHANGED <<mpc, forks, results, errors, sem, wg, completed, doneClosed,
                   progressClosed, finalResults, warnings, inject, holders, resWriters, errWriters>>
    /\ UNCHANGED <<offGh, runErr, shown>>

\* results[idx] = analyzed
WorkerStoreResult(w) ==
    /\ wpc[w] = "returned" /\ ~crashed
    /\ results' = [results EXCEPT ![IdxOf(w)] = analyzed[w]]
    /\ resWriters' = [resWriters EXCEPT ![IdxOf(w)] = Append(@, w)]
    /\ wpc' = [wpc EXCEPT ![w] = "stored"]
    /\ UNCHANGED <<mpc, forks, errors, analyzed, werr, sem, wg, completed, doneClosed,
                   progressClosed, finalResults, warnings, inject, holders, errWriters>>
    /\ UNCHANGED <<storeVars, offRun, lateVars>>

\* errors[idx] = err; completed.Add(1)
WorkerStoreError(w) ==
    /\ wpc[w] = "stored" /\ ~crashed
    /\ errors' = [errors EXCEPT ![IdxOf(w)] = werr[w]]
    /\ errWriters' = [errWriters EXCEPT ![IdxOf(w)] = Append(@, w)]
    /\ completed' = completed + 1
    /\ wpc' = [wpc EXCEPT ![w] = "counted"]
    /\ UNCHANGED <<mpc, forks, results, analyzed, werr, sem, wg, doneClosed,
                   progressClosed, finalResults, warnings, inject, holders, resWriters>>
    /\ UNCHANGED <<storeVars, offRun, lateVars>>

\* The deferred calls run last in, first out: func() { <-sem }() first.
WorkerRelease(w) ==
    /\ wpc[w] = "counted" /\ ~crashed
    /\ sem > 0
    /\ sem' = sem - 1
    /\ holders' = holders \ {w}
    /\ wpc' = [wpc EXCEPT ![w] = "released"]
    /\ UNCHANGED <<mpc, forks, results, errors, analyzed, werr, wg, completed, doneClosed,
                   progressClosed, finalResults, warnings, inject, resWriters, errWriters>>
    /\ UNCHANGED <<storeVars, offRun, lateVars>>

\* ... then wg.Done(), and the goroutine ends.
WorkerDone(w) ==
    /\ wpc[w] = "released" /\ ~crashed
    /\ wg' = wg - 1
    /\ wpc' = [wpc EXCEPT ![w] = "done"]
    /\ UNCHANGED <<mpc, forks, results, errors, analyzed, werr, sem, completed, doneClosed,
                   progressClosed, finalResults, warnings, inject, holders, resWriters, errWriters>>
    /\ UNCHANGED <<storeVars, offRun, lateVars>>

\* wg.Wait() returns when the counter is zero.
WaitReturnsEarly(c) == c <= 1
\* Mutant of WaitReturns: wg.Wait() does not wait.
WaitReturnsAtOnce(c) == TRUE
WaitReturns(c) == c = 0

MainWait ==
    /\ mpc = "wait" /\ ~crashed
    /\ WaitReturns(wg)
    /\ mpc' = "closeDone"
    /\ UNCHANGED <<forks, results, errors, wpc, analyzed, werr, sem, wg, completed, doneClosed,
                   progressClosed, finalResults, warnings, inject, holders, resWriters, errWriters>>
    /\ UNCHANGED <<storeVars, offRun, lateVars>>

\* close(done)
MainCloseDone ==
    /\ mpc = "closeDone" /\ ~crashed
    /\ doneClosed' = TRUE
    /\ mpc' = "closeProgress"
    /\ UNCHANGED <<forks, results, errors, wpc, analyzed, werr, sem, wg, completed,
                   progressClosed, finalResults, warnings, inject, holders, resWriters, errWriters>>
    /\ UNCHANGED <<storeVars, offRun, lateVars>>

\* close(progress)
MainCloseProgress ==
    /\ mpc = "closeProgress" /\ ~crashed
    /\ progressClosed' = TRUE
    /\ mpc' = "collect"
    /\ UNCHANGED <<forks, results, errors, wpc, analyzed, werr, sem, wg, completed, doneClosed,
                   finalResults, warnings, inject, holders, resWriters, errWriters>>
    /\ UNCHANGED <<storeVars, offRun, lateVars>>

\* The collecting loop: an index with an error is warned about and skipped, an
\* index without one is kept when its Fork has a full name.
KeptAnyway(res, errs, i) == res[i].FullName # <<>>
Kept(res, errs, i) == errs[i] = NoErr /\ res[i].FullName # <<>>
Indices(n) == [i \in 1 .. n |-> i]
CollectResults(res, errs) ==
    LET kept == SelectSeq(Indices(Len(res)), LAMBDA i : Kept(res, errs, i))
    IN [k \in 1 .. Len(kept) |-> res[kept[k]]]
CollectWarnings(fks, errs) ==
    LET warned == SelectSeq(Indices(Len(errs)), LAMBDA i : errs[i] # NoErr)
    IN [k \in 1 .. Len(warned) |-> [repo |-> fks[warned[k]].FullName, err |-> errs[warned[k]]]]

MainCollect ==
    /\ mpc = "collect" /\ ~crashed
    /\ finalResults' = CollectResults(results, errors)
    /\ warnings' = CollectWarnings(forks, errors)
    /\ mpc' = "collected"
    /\ UNCHANGED <<forks, results, errors, wpc, analyzed, werr, sem, wg, completed, doneClosed,
                   progressClosed, inject, holders, resWriters, errWriters>>
    /\ UNCHANGED <<storeVars, offRun, lateVars>>

\* Mutant of FilterUntouched: nothing is dropped.
FilterNothing(all, list) == list
\* Filter untouched if not showing all.
FilterUntouched(all, list) ==
    IF all THEN list ELSE SelectSeq(list, LAMBDA x : ~x.Untouched)

MainFilter ==
    /\ mpc = "collected" /\ ~crashed
    /\ shown' = FilterUntouched(showAll, finalResults)
    /\ mpc' = "sort"
    /\ UNCHANGED <<forks, results, errors, wpc, analyzed, werr, sem, wg, completed, doneClosed,
                   progressClosed, finalResults, warnings, inject, holders, resWriters, errWriters>>
    /\ UNCHANGED <<storeVars, offRun, runErr, effects>>

\* Go's < on strings: byte by byte, a proper prefix first. The bytes that occur
\* in the names, in ascending order:
Letters == <<"a", "b", "c", "y", "z">>
ByteOf(ch) == CHOOSE i \in DOMAIN Letters : Letters[i] = ch
StrLess(a, b) ==
    \E k \in 1 .. Len(b) :
        /\ k <= Len(a) + 1
        /\ \A j \in 1 .. k - 1 : a[j] = b[j]
        /\ IF k = Len(a) + 1 THEN TRUE ELSE ByteOf(a[k]) < ByteOf(b[k])

\* categoryOrder[c]: a key the map lacks reads as 0.
categoryOrder(c) ==
    CASE c = CategoryMaintained -> 0
      [] c = CategoryContribution -> 1
      [] c = CategoryUntouched -> 2
      [] OTHER -> 0

\* Mutant of less: the names alone decide.
lessByName(a, b) == StrLess(a.Name, b.Name)

\* The less function handed to sort.Slice.
less(a, b) ==
    IF a.Category # b.Category
    THEN categoryOrder(a.Category) < categoryOrder(b.Category)
    ELSE StrLess(a.Name, b.Name)

\* sort.Slice(list, less): not stable, so any arrangement of the elements in
\* which no element is less than one before it.
sortSlice(list) ==
    {[k \in DOMAIN list |-> list[ix[k]]] :
        ix \in {o \in Orderings(DOMAIN list) :
                  \A i, j \in DOMAIN list : i < j => ~less(list[o[j]], list[o[i]])}}

MainSort ==
    /\ mpc = "sort" /\ ~crashed
    /\ shown' \in sortSlice(shown)
    /\ mpc' = "output"
    /\ UNCHANGED <<forks, results, errors, wpc, analyzed, werr, sem, wg, completed, doneClosed,
                   progressClosed, finalResults, warnings, inject, holders, resWriters, errWriters>>
    /\ UNCHANGED <<storeVars, offRun, runErr, effects>>

\* The output, and run returns: the deferred cleanup runs.
MainOutput ==
    /\ mpc = "output" /\ ~crashed
    /\ mpc' = "returned"
    /\ tmpDirs' = cleanup(tmpDirs, tmpDir)
    /\ UNCHANGED <<forks, results, errors, wpc, analyzed, werr, sem, wg, completed, doneClosed,
                   progressClosed, finalResults, warnings, inject, holders, resWriters, errWriters>>
    /\ UNCHANGED <<storeVars, offGh, lateVars, tmpDir, made, ghEnv>>

\* The locals of run before anything has happened, the flags set.
RunBlank ==
    /\ fs = HealthyFS /\ clock = 0 /\ crashed = FALSE
    /\ disk0 = disk
    /\ call = NoCall
    /\ noCache \in BOOLEAN
    /\ repo = RepoSolo /\ fork = ZeroFork /\ apc = "idle"
    /\ prsOut = <<>> /\ prsErr = FALSE /\ progress = <<>> /\ failed = {}
    /\ forks = <<>> /\ results = <<>> /\ errors = <<>>
    /\ wpc = <<>> /\ analyzed = <<>> /\ werr = <<>>
    /\ sem = 0 /\ wg = 0 /\ completed = 0
    /\ doneClosed = FALSE /\ progressClosed = FALSE
    /\ warnings = <<>> /\ holders = {}
    /\ resWriters = <<>> /\ errWriters = <<>>
    /\ runErr = NoRunErr /\ effects = NoEffects /\ shown = <<>>
    /\ racers = <<>> /\ writeLog = <<>>
    /\ sent = <<>> /\ rpc = "idle" /\ lastUpdate = [repo |-> <<>>, action |-> ""]
    /\ drawn = {}
    /\ tmpDir = 0 /\ tmpDirs = {} /\ made = 0 /\ ghEnv = {}
    /\ ToolsIdle

\* run is entered.
RunStart == RunBlank /\ mpc = "checkAuth" /\ finalResults = <<>>

\* A run over up to MaxForks forks, no cache file present, default identity.
RunInit ==
    /\ disk = [fn \in FileNames |-> FileMissing]
    /\ RunStart
    /\ remote \in {RemoteTable(n) : n \in 0 .. MaxForks}
    /\ asProfile = "" /\ showAll = FALSE
    /\ inject = {}
RunNext ==
    \/ MainCheckAuth
    \/ MainListForks
    \/ MainSpawn
    \/ MainWait
    \/ MainCloseDone
    \/ MainCloseProgress
    \/ MainCollect
    \/ MainFilter
    \/ MainSort
    \/ MainOutput
    \/ \E w \in Workers : WorkerAcquire(w)
    \/ \E w \in Workers : WorkerAnalyze(w)
    \/ \E w \in Workers : WorkerStoreResult(w)
    \/ \E w \in Workers : WorkerStoreError(w)
    \/ \E w \in Workers : WorkerRelease(w)
    \/ \E w \in Workers : WorkerDone(w)
SpecRun == RunInit /\ [][RunNext]_vars

\* A run under test: the top-level call fails for the indices in inject.
RunInjectInit ==
    /\ disk = [fn \in FileNames |-> FileMissing]
    /\ RunStart
    /\ remote \in {RemoteTable(n) : n \in 0 .. MaxForced}
    /\ asProfile = "" /\ showAll = FALSE
    /\ inject \in (SUBSET (1 .. MaxForced)) \ {{}}
SpecRunInject == RunInjectInit /\ [][RunNext]_vars

\* ------------------------------------------------------- the run, properties
Running == {w \in Workers : wpc[w] = "running"}

\* C7. Index integrity under concurrency: no result or error slot is ever
\* written twice or by two workers, and once wg.Wait() has returned there are
\* as many result slots as enumerated forks, each populated, slot i holding the
\* analysis of the fork enumerated at index i (same name and full name), written
\* once and by worker i.
C7_IndexIntegrity ==
    /\ \A i \in Workers :
        /\ Len(resWriters[i]) <= 1
        /\ Len(errWriters[i]) <= 1
    /\ mpc \in AfterWait =>
        /\ Len(results) = Len(forks)
        /\ Len(errors) = Len(forks)
        /\ \A i \in Workers :
            /\ results[i].FullName # <<>>
            /\ results[i].Name = forks[i].Name
            /\ results[i].FullName = forks[i].FullName
            /\ resWriters[i] = <<i>>
            /\ errWriters[i] = <<i>>
C7_Witness == mpc \in AfterWait /\ Len(forks) > maxWorkers

\* C9. Bounded concurrency: at most maxWorkers (5) analyses execute at a time; a
\* worker inside analyzeForkWithProgress holds a token of sem, of which there
\* are never more than 5; a worker that has run its deferred release holds
\* none; and none is held once wg.Wait() has returned.
C9_BoundedConcurrency ==
    /\ Cardinality(Running) <= 5
    /\ Running \subseteq holders
    /\ sem = Cardinality(holders)
    /\ sem <= 5
    /\ \A w \in Workers : wpc[w] \in {"new", "spawned", "released", "done"} => w \notin holders
    /\ mpc \in AfterWait => sem = 0 /\ holders = {}
C9_Witness ==
    /\ Cardinality(Running) = 5
    /\ \E w \in Workers : wpc[w] = "spawned"

\* C10. Join barrier: when main is past wg.Wait() - closing done, closing
\* progress, reading results and errors - and whenever done or progress is
\* closed or results have been collected, every worker has stored its result
\* and its error at its index and has finished.
C10_JoinBarrier ==
    (mpc \in AfterWait \/ doneClosed \/ progressClosed \/ finalResults # <<>>) =>
        \A w \in Workers :
            /\ wpc[w] = "done"
            /\ Len(resWriters[w]) = 1
            /\ Len(errWriters[w]) = 1
C10_Witness == mpc = "collect" /\ doneClosed /\ progressClosed /\ Len(forks) >= 2

\* What the analysis of the fork at index i returns when it runs alone.
Alone(i) ==
    {o.fork : o \in analyzeFork(remote[i].repo, remote[i].script, disk0, fs, noCache, 0)}
Entries(i) == {k \in DOMAIN finalResults : finalResults[k].FullName = forks[i].FullName}

\* C8. Partial failure isolation: after the collecting loop every index with a
\* recorded error has a warning naming its fork and the error and has no entry
\* in the final results; every index without one has exactly one entry, equal
\* to the analysis of its fork run alone; there is one warning per failed index.
C8_PartialFailureIsolation ==
    mpc = "collected" =>
        /\ \A i \in Workers :
            IF errors[i] # NoErr
            THEN /\ \E k \in DOMAIN warnings :
                        warnings[k] = [repo |-> forks[i].FullName, err |-> errors[i]]
                 /\ Entries(i) = {}
            ELSE /\ Cardinality(Entries(i)) = 1
                 /\ \A k \in Entries(i) : finalResults[k] \in Alone(i)
        /\ Len(warnings) = Cardinality({i \in Workers : errors[i] # NoErr})
        /\ Len(finalResults) = Cardinality({i \in Workers : errors[i] = NoErr})
C8_Witness ==
    /\ mpc = "collected"
    /\ \E i, j \in Workers :
        /\ errors[i] # NoErr /\ results[i].FullName # <<>>
        /\ errors[j] = NoErr

\* ---------------------------------------------------------------------------
\* The filter and the sort of run, over every short list of analysed forks.
\* ---------------------------------------------------------------------------

MaxSort == 3

SortNames == {<<"a", "a", "a">>, <<"b", "b", "b">>, <<"z", "z", "z">>, <<"a", "a">>}
SortCategories == {CategoryMaintained, CategoryContribution, CategoryUntouched}
SortFork(name, cat) ==
    [ZeroFork EXCEPT !.Name = name, !.FullName = <<"me">> \o name, !.Category = cat,
                     !.Untouched = (cat = CategoryUntouched)]

\* The user's forks have distinct names.
SortLists ==
    UNION {{l \in [1 .. n -> {SortFork(nm, c) : nm \in SortNames, c \in SortCategories}] :
              \A i, j \in 1 .. n : i # j => l[i].Name # l[j].Name} : n \in 0 .. MaxSort}

\* run has collected the analysed forks.
SortInit ==
    /\ disk = [fn \in FileNames |-> FileMissing]
    /\ RunBlank
    /\ noCache = FALSE
    /\ remote = <<>> /\ asProfile = "" /\ inject = {}
    /\ showAll \in BOOLEAN
    /\ mpc = "collected"
    /\ finalResults \in SortLists

SortNext == MainFilter \/ MainSort \/ MainOutput
SpecSort == SortInit /\ [][SortNext]_vars

\* The rank of a category and the dictionary order of names, stated apart from
\* the comparison the sort uses.
CategoryRank(c) ==
    IF c = CategoryMaintained THEN 0 ELSE IF c = CategoryContribution THEN 1 ELSE 2
FirstDiff(a, b) ==
    CHOOSE m \in 1 .. Len(a) + 1 :
        /\ \A j \in 1 .. m - 1 : j <= Len(b) /\ a[j] = b[j]
        /\ m = Len(a) + 1 \/ m > Len(b) \/ a[m] # b[m]
LexLeq(a, b) ==
    LET m == FirstDiff(a, b)
    IN  \/ m = Len(a) + 1
        \/ m <= Len(b) /\ ByteOf(a[m]) < ByteOf(b[m])
Count(list, x) == Cardinality({k \in DOMAIN list : list[k] = x})
SamePopulation(l1, l2) ==
    /\ Len(l1) = Len(l2)
    /\ \A x \in Range(l1) \cup Range(l2) : Count(l1, x) = Count(l2, x)

\* C11: in the list handed to presentation every adjacent pair a, b has
\* rank(a) < rank(b), or equal categories and a.Name <= b.Name; the list
\* holds exactly the forks the filter left, each as often as before.
C11_FinalOrdering ==
    mpc = "output" =>
        /\ \A i \in 1 .. Len(shown) - 1 :
              \/ CategoryRank(shown[i].Category) < CategoryRank(shown[i + 1].Category)
              \/ /\ shown[i].Category = shown[i + 1].Category
                 /\ LexLeq(shown[i].Name, shown[i + 1].Name)
        /\ SamePopulation(shown, FilterUntouched(showAll, finalResults))

\* The example: bbb/maintained, aaa/maintained, zzz/contribution comes out as
\* aaa, bbb, zzz.
C11_Witness ==
    /\ mpc = "output"
    /\ finalResults = <<SortFork(<<"b", "b", "b">>, CategoryMaintained),
                        SortFork(<<"a", "a", "a">>, CategoryMaintained),
                        SortFork(<<"z", "z", "z">>, CategoryContribution)>>
    /\ [k \in DOMAIN shown |-> shown[k].Name]
         = <<<<"a", "a", "a">>, <<"b", "b", "b">>, <<"z", "z", "z">>>>

\* ---------------------------------------------------------------------------
\* The head of run: authentication and enumeration under either identity.
\* ---------------------------------------------------------------------------

MaxHead == 2

HeadInit ==
    /\ disk = [fn \in FileNames |-> FileMissing]
    /\ RunStart
    /\ remote \in {RemoteTable(n) : n \in 0 .. MaxHead}
    /\ asProfile \in Profiles /\ showAll = FALSE
    /\ inject = {}
SpecHead == HeadInit /\ [][RunNext]_vars

\* checkAuth has run once before the enumeration and before any worker.
AuthFirst ==
    /\ mpc # "checkAuth" => effects.auths = 1
    /\ effects.lists > 0 => effects.auths = 1 /\ effects.lists = 1
    /\ (\E w \in DOMAIN wpc : wpc[w] # "new") => effects.auths = 1 /\ effects.lists = 1
    /\ effects.analyses > 0 => effects.auths = 1 /\ effects.lists = 1

\* Nothing of the per-fork work has happened.
NoForkWork ==
    /\ effects.analyses = 0 /\ effects.events = 0 /\ effects.prFetches = 0
    /\ progress = <<>> /\ forks = <<>> /\ wpc = <<>>
    /\ disk = disk0

\* C13: checkAuth runs once, before the enumeration and before any worker; when
\* checkAuth or the enumeration fails, run returns an error that names the
\* requested profile and nothing of the per-fork work happens.
C13_FailFast ==
    /\ AuthFirst
    /\ effects.ghFailed # "none" =>
          /\ mpc = "exit" /\ runErr.kind # "nil"
          /\ asProfile # "" => asProfile \in Range(runErr.text)
          /\ NoForkWork

\* C13, amended: as above, but only the authentication error names the profile.
C13_FailFastAuthNamesProfile ==
    /\ AuthFirst
    /\ effects.ghFailed # "none" =>
          /\ mpc = "exit" /\ runErr.kind # "nil"
          /\ NoForkWork
    /\ effects.ghFailed = "auth status" =>
          /\ effects.lists = 0
          /\ asProfile # "" => asProfile \in Range(runErr.text)
    /\ effects.ghFailed = "api graphql" => runErr = ErrList /\ asProfile \notin Range(runErr.text)

C13_Witness ==
    /\ mpc = "exit" /\ asProfile = "work"
    /\ effects.ghFailed = "api graphql" /\ effects.auths = 1
    /\ remote # <<>>

\* ---------------------------------------------------------------------------
\* Runs over forks of one upstream, whose workers share its cache file.
\* ---------------------------------------------------------------------------

MaxOrder == 3

\* What the API answers for a fork of lib/lib, by the kind of fork.
OrderScripts ==
    <<Script([ok |-> TRUE, AheadBy |-> 0, BehindBy |-> 0], DateOK, DateOK,
             BranchesOf(<<"main">>), RespOK(<<GhPR(1, PRStateOpen, "main")>>)),
      Script([ok |-> TRUE, AheadBy |-> 0, BehindBy |-> 1], DateOK, DateOK,
             BranchesOf(<<"main">>),
             RespOK(<<GhPR(1, PRStateOpen, "main"), GhPR(2, PRStateMerged, "main")>>)),
      Script([ok |-> TRUE, AheadBy |-> 0, BehindBy |-> 0], DateOK, DateOK,
             BranchesOf(<<"main">>), RespFail),
      Script([ok |-> TRUE, AheadBy |-> 1, BehindBy |-> 0], DateOK, DateOK,
             BranchesOf(<<"feature", "main">>), RespOK(<<>>))>>
OrderTables ==
    UNION {{[i \in 1 .. n |-> [repo |-> MkRepo(NameOf(i), ParentLib),
                                script |-> OrderScripts[k[i]]]] :
              k \in [1 .. n -> DOMAIN OrderScripts]} : n \in 0 .. MaxOrder}
OrderSeeds ==
    {FileMissing,
     Marshal([NewPRCache EXCEPT !.PRs = Overlay(EmptyMap, <<GhPR(2, PRStateMerged, "main")>>)])}

OrderInit ==
    /\ \E seed \in OrderSeeds :
          disk = [fn \in FileNames |-> IF fn = cacheFileName(UpLib) THEN seed ELSE FileMissing]
    /\ RunStart
    /\ noCache = FALSE
    /\ remote \in OrderTables
    /\ asProfile = "" /\ showAll \in BOOLEAN
    /\ inject = {}
SpecOrder == OrderInit /\ [][RunNext]_vars

\* The names and categories of a list of forks, in order.
NamesAndCategories(list) == [k \in DOMAIN list |-> <<list[k].Name, list[k].Category>>]

\* The lists the inputs of the run alone determine: each fork with a category
\* its analysis gives it when it is the only one run on the initial cache,
\* filtered and sorted.
ListsFromInputs ==
    UNION {{NamesAndCategories(l) : l \in sortSlice(FilterUntouched(showAll, fl))} :
             fl \in {g \in [DOMAIN remote -> UNION {Alone(i) : i \in DOMAIN remote}] :
                       \A i \in DOMAIN remote : g[i] \in Alone(i)}}

\* C12: whatever the interleaving of the workers, the list handed to
\* presentation has the names, in the order, and the categories that the
\* enumerated forks, the remote responses and the initial cache determine.
C12_CompletionOrderIndependence ==
    mpc = "output" =>
        /\ Cardinality(ListsFromInputs) = 1
        /\ NamesAndCategories(shown) \in ListsFromInputs

\* Three workers shared the cache file, one of them added to it, and the list
\* came out in another order than the enumeration.
C12_Witness ==
    /\ mpc = "output" /\ Len(forks) = MaxOrder /\ Len(shown) >= 2
    /\ disk # disk0
    /\ \E k \in DOMAIN forks : remote[k].script.search = RespFail
    /\ \E i, j \in DOMAIN shown :
          i < j /\ \E a, b \in DOMAIN forks :
                     a > b /\ forks[a].Name = shown[i].Name /\ forks[b].Name = shown[j].Name

\* ---------------------------------------------------------------------------
\* Two workers of one run in getPRsForFork for forks of the same upstream,
\* statement by statement. os.WriteFile is OpenFile with O_TRUNC, then Write,
\* each call writing from offset 0 of the file.
\* ---------------------------------------------------------------------------

MaxRacers == 2

\* A file that is no JSON document, of a given length: what O_TRUNC leaves
\* (length 0) and what a short write over a longer content leaves.
Torn(n) == [kind |-> "corrupt", size |-> n]
Truncated == Torn(0)

\* Lengths, counted in cache entries (every entry of these runs is as long as
\* any other); the envelope of a document counts one.
FileSize(file) ==
    CASE file.kind = "doc" -> Len(file.prs) + 1
      [] file.kind = "corrupt" -> file.size
      [] OTHER -> 0

\* Write(data) at offset 0 of a file: what lay beyond the data stays.
WriteAtStart(file, data) ==
    IF FileSize(data) >= FileSize(file) THEN data ELSE Torn(FileSize(file))

RaceResponses ==
    {RespFail,
     RespOK(<<GhPR(1, PRStateOpen, "feature")>>),
     RespOK(<<GhPR(1, PRStateMerged, "feature")>>),
     RespOK(<<GhPR(2, PRStateClosed, "feature")>>),
     RespOK(<<GhPR(1, PRStateMerged, "feature"), GhPR(2, PRStateClosed, "feature")>>)}
RaceSeeds ==
    {FileMissing} \cup
    {Marshal([NewPRCache EXCEPT !.PRs = Overlay(EmptyMap, l)]) :
        l \in {<<GhPR(1, PRStateMerged, "feature")>>,
               <<GhPR(1, PRStateMerged, "feature"), GhPR(2, PRStateClosed, "feature")>>}}

RaceFile == cacheFileName(UpLib)

NewRacer(resp) ==
    [pc |-> "load", resp |-> resp, cache |-> NewPRCache, prs |-> <<>>, data |-> FileMissing,
     observed |-> <<>>, reloadedAfter |-> 0]

RaceInit ==
    /\ \E seed \in RaceSeeds :
          disk = [fn \in FileNames |-> IF fn = RaceFile THEN seed ELSE FileMissing]
    /\ fs = HealthyFS /\ clock = 0 /\ crashed = FALSE
    /\ call = NoCall /\ ForkIdle
    /\ mpc = "idle" /\ forks = <<>> /\ results = <<>> /\ errors = <<>>
    /\ wpc = <<>> /\ analyzed = <<>> /\ werr = <<>>
    /\ sem = 0 /\ wg = 0 /\ completed = 0
    /\ doneClosed = FALSE /\ progressClosed = FALSE
    /\ finalResults = <<>> /\ warnings = <<>> /\ inject = {} /\ holders = {}
    /\ resWriters = <<>> /\ errWriters = <<>>
    /\ remote = <<>> /\ disk0 = disk /\ asProfile = "" /\ showAll = FALSE
    /\ runErr = NoRunErr /\ effects = NoEffects /\ shown = <<>>
    /\ racers \in [1 .. MaxRacers -> {NewRacer(resp) : resp \in RaceResponses}]
    /\ writeLog = <<>>
    /\ sent = <<>> /\ rpc = "idle" /\ lastUpdate = [repo |-> <<>>, action |-> ""]
    /\ drawn = {}
    /\ tmpDir = 0 /\ tmpDirs = {} /\ made = 0 /\ ghEnv = {}
    /\ ToolsIdle

offRace == <<fs, clock, crashed, harnessVars, forkVars, runVars, inputVars, lateVars, reporterVars,
            identityVars, toolVars>>

\* getPRsForFork: cache, _ = loadPRCache(parentFullName), unless --no-cache.
RaceLoad(r) ==
    /\ racers[r].pc = "load"
    /\ racers' = [racers EXCEPT
                    ![r].pc = "search",
                    ![r].cache = StartCache(disk, fs, noCache, UpLib),
                    ![r].observed = IF noCache THEN @ ELSE Append(@, disk[RaceFile])]
    /\ UNCHANGED <<disk, writeLog, offRace>>

\* getPRsForFork: the search and the merge; a failed search returns without
\* saving.
RaceSearch(r) ==
    /\ racers[r].pc = "search"
    /\ IF racers[r].resp.kind # "ok"
       THEN racers' = [racers EXCEPT ![r].pc = "returned"]
       ELSE \E prs \in mergeCachedPRs(FreshPRs(racers[r].resp.nodes), racers[r].cache) :
               racers' = [racers EXCEPT ![r].pc = "reload", ![r].prs = prs]
    /\ UNCHANGED <<disk, writeLog, offRace>>

\* savePRCache up to json.MarshalIndent: the reload, the overlay, the time.
RaceReload(r) ==
    /\ racers[r].pc = "reload"
    /\ LET cache == loadPRCache(disk, fs, UpLib).cache
           upd == [cache EXCEPT !.PRs = Overlay(cache.PRs, racers[r].prs), !.UpdatedAt = clock]
       IN racers' = [racers EXCEPT
                       ![r].pc = "open",
                       ![r].data = Marshal(upd),
                       ![r].observed = Append(@, disk[RaceFile]),
                       ![r].reloadedAfter = Len(writeLog)]
    /\ UNCHANGED <<disk, writeLog, offRace>>

\* os.WriteFile: OpenFile(name, O_WRONLY|O_CREATE|O_TRUNC, perm).
RaceOpen(r) ==
    /\ racers[r].pc = "open"
    /\ disk' = [disk EXCEPT ![RaceFile] = Truncated]
    /\ racers' = [racers EXCEPT ![r].pc = "write"]
    /\ UNCHANGED <<writeLog, offRace>>

\* os.WriteFile: f.Write(data) and Close.
RaceWrite(r) ==
    /\ racers[r].pc = "write"
    /\ disk' = [disk EXCEPT ![RaceFile] = WriteAtStart(@, racers[r].data)]
    /\ racers' = [racers EXCEPT ![r].pc = "returned"]
    /\ writeLog' = Append(writeLog, r)
    /\ UNCHANGED offRace

RaceNext ==
    \/ \E r \in DOMAIN racers : RaceLoad(r)
    \/ \E r \in DOMAIN racers : RaceSearch(r)
    \/ \E r \in DOMAIN racers : RaceReload(r)
    \/ \E r \in DOMAIN racers : RaceOpen(r)
    \/ \E r \in DOMAIN racers : RaceWrite(r)
SpecRace == RaceInit /\ [][RaceNext]_vars

\* C18: no loadPRCache of one worker ever reads the cache file truncated or
\* partly written by the savePRCache of another.
C18_AtomicSave ==
    \A r \in DOMAIN racers :
        \A k \in DOMAIN racers[r].observed : racers[r].observed[k].kind # "corrupt"

FileNumbers(file) == {e.key : e \in FileEntries(file)}
\* The numbers a call adds to the cache file of the start of the run.
AddedBy(r) == TerminalNumbers(racers[r].prs) \ FileNumbers(disk0[RaceFile])
WritePosition(r) == CHOOSE k \in DOMAIN writeLog : writeLog[k] = r

\* C19: once both calls have returned, the cache file is the document of the
\* call that wrote last; a number only the earlier writer added is missing from
\* it exactly when the later writer reloaded before the earlier one wrote; and
\* the file holds merged and closed pull requests only.
C19_LastWriteWins ==
    (writeLog # <<>> /\ \A r \in DOMAIN racers : racers[r].pc = "returned") =>
        LET last == writeLog[Len(writeLog)]
        IN /\ disk[RaceFile] = racers[last].data
           /\ \A e \in Range(writeLog) \ {last} :
                 \A n \in AddedBy(e) \ AddedBy(last) :
                     n \notin FileNumbers(disk[RaceFile])
                        <=> racers[last].reloadedAfter < WritePosition(e)
           /\ \A x \in FileEntries(disk[RaceFile]) : IsTerminal(x.val.State)

\* ---------------------------------------------------------------------------
\* One analysis: what a failed call leaves behind.
\* ---------------------------------------------------------------------------

\* The progress updates an analysis of r sends, in order.
UpdatesOf(r) ==
    IF r.Parent.nil THEN <<Update(r, "fetching branches")>>
    ELSE <<Update(r, "comparing with upstream"), Update(r, "checking commit dates"),
           Update(r, "fetching branches"), Update(r, "fetching PRs")>>
BranchNamed(fk, b) == {i \in DOMAIN fk.Branches : fk.Branches[i].Name = b}
NoLinkedPR(fk) == \A i \in DOMAIN fk.Branches : fk.Branches[i].PR.nil
\* What the failed calls other than the PR search leave at zero.
ZeroWhereFailed ==
    /\ "comparison" \in failed => fork.Ahead = 0 /\ fork.Behind = 0
    /\ "fork recency" \in failed => fork.ForkLastCommit = <<>> /\ fork.ForkLastAgo = <<>>
    /\ "upstream recency" \in failed => fork.UpstreamLast = <<>> /\ fork.UpstreamAgo = <<>>
    /\ "branch listing" \in failed => fork.Branches = <<>>
    /\ \A b \in {"feature", "fix"} :
          ("date of " \o b) \in failed =>
              \A i \in BranchNamed(fork, b) :
                  fork.Branches[i].Date = <<>> /\ fork.Branches[i].DateAgo = <<>>
\* The analysis ran every step and returned a categorized Fork.
RanToTheEnd ==
    /\ progress = UpdatesOf(repo)
    /\ fork.Category \in {CategoryMaintained, CategoryContribution, CategoryUntouched}
    /\ fork.Name = repo.Name

\* C21: when the analysis has returned, every step whose remote call failed has
\* left its fields at zero (counts 0, recency empty, no branches, branch date
\* empty, no linked pull request), every step ran, and the Fork has a category.
C21_StepFailureLeavesZero ==
    apc = "returned" =>
        /\ ZeroWhereFailed
        /\ "PR search" \in failed => NoLinkedPR(fork)
        /\ RanToTheEnd

\* C21, amended: as above, but a failed PR search leaves the branches without a
\* pull request only when the cache is bypassed or holds nothing for the
\* upstream; otherwise only merged and closed pull requests are linked.
C21_StepFailureLeavesZeroOrCached ==
    apc = "returned" =>
        /\ ZeroWhereFailed
        /\ "PR search" \in failed =>
              /\ (noCache \/ FileEntries(disk[cacheFileName(repo.Parent.FullName)]) = {})
                    => NoLinkedPR(fork)
              /\ \A i \in DOMAIN fork.Branches :
                    ~fork.Branches[i].PR.nil => IsTerminal(fork.Branches[i].PR.State)
        /\ RanToTheEnd

\* The analysis returned after its comparison, its branch listing and its PR
\* search had all failed.
C21_Witness ==
    /\ apc = "returned"
    /\ {"comparison", "branch listing", "PR search"} \subseteq failed
    /\ fork.Category = CategoryUntouched

\* The entries the upstream's cache file held when the analysis began.
CachedAtStart == {e.val : e \in FileEntries(disk0[cacheFileName(repo.Parent.FullName)])}
\* Every branch carries a cached pull request of its name when there is one,
\* and none otherwise.
LinkedFromCache ==
    \A i \in DOMAIN fork.Branches :
        LET mine == {c \in CachedAtStart : c.Branch = fork.Branches[i].Name}
        IN IF mine = {} THEN fork.Branches[i].PR.nil
           ELSE \E c \in mine : fork.Branches[i].PR = NewPR(FromCachedPR(c))

\* C22: after a failed PR search, with cache reads on and a non-empty cache the
\* call has returned exactly the cached pull requests and no error, and they are
\* linked; with an empty cache or under --no-cache it has returned the error
\* and nothing is linked; the cache directory is as it was.
C22_CacheFallback ==
    (apc = "categorize" /\ "PR search" \in failed) =>
        /\ IF ~noCache /\ CachedAtStart # {}
           THEN /\ ~prsErr
                /\ Len(prsOut) = Cardinality(CachedAtStart)
                /\ Range(prsOut) = {FromCachedPR(c) : c \in CachedAtStart}
                /\ LinkedFromCache
           ELSE /\ prsErr /\ prsOut = <<>>
                /\ NoLinkedPR(fork)
        /\ disk = disk0

\* The search failed, two cached pull requests came back and one is linked.
C22_Witness ==
    /\ apc = "categorize" /\ "PR search" \in failed
    /\ Len(prsOut) > 1
    /\ ~NoLinkedPR(fork)

\* C23: the categorization step makes a fork that is not ahead but has a
\* non-default branch or a pull request against its parent, in any state, a
\* contribution, and makes a fork untouched only when it is not ahead, has no
\* non-default branch and has no pull request.
C23_DocumentedCategories ==
    [][(apc = "categorize" /\ apc' = "returned") =>
          LET hasPR == prsOut # <<>>
              branches == NonDefaultBranches(fork)
          IN /\ (fork.Ahead = 0 /\ (branches > 0 \/ hasPR))
                    => fork'.Category = CategoryContribution
             /\ fork'.Category = CategoryUntouched
                    => (fork.Ahead = 0 /\ branches = 0 /\ ~hasPR)]_vars

\* ---------------------------------------------------------------------------
\* The run with its progress channel and its reporter goroutine. The channel's
\* buffer is scaled down so that the sends of a few forks fill it.
\* ---------------------------------------------------------------------------

MaxBusy == 3
MaxQueue == 2

Sent(w) == IF w \in DOMAIN sent THEN sent[w] ELSE 0

offReporter == <<storeVars, harnessVars, runVars, inputVars, lateVars, raceVars, identityVars,
                toolVars>>

\* progress <- progressUpdate{...} in a worker's analysis: blocks while the
\* buffer is full.
WorkerSend(w) ==
    /\ wpc[w] = "running" /\ ~crashed
    /\ Sent(w) < Len(UpdatesOf(forks[IdxOf(w)]))
    /\ Len(progress) < MaxQueue
    /\ progress' = Append(progress, UpdatesOf(forks[IdxOf(w)])[Sent(w) + 1])
    /\ sent' = [i \in DOMAIN wpc |-> IF i = w THEN Sent(i) + 1 ELSE Sent(i)]
    /\ UNCHANGED <<noCache, repo, fork, apc, prsOut, prsErr, failed, rpc, lastUpdate, drawn, offReporter>>

\* The analysis returns once its updates are sent.
WorkerFinish(w) ==
    /\ Sent(w) = Len(UpdatesOf(forks[IdxOf(w)]))
    /\ WorkerAnalyze(w)

\* The reporter goroutine starts running some time after go func() {...}().
ReporterStart ==
    /\ rpc = "idle" /\ mpc \notin {"checkAuth", "listForks", "exit", "returned"}
    /\ rpc' = "select"
    /\ UNCHANGED <<forkVars, sent, lastUpdate, drawn, offReporter>>

\* Whether the select's receive from progress can go through with a value.
ReporterStalls == FALSE
ReporterDrains == progress # <<>>

\* case update := <-progress
ReporterReceive ==
    /\ rpc = "select" /\ ReporterDrains
    /\ lastUpdate' = Head(progress)
    /\ progress' = Tail(progress)
    /\ UNCHANGED <<noCache, repo, fork, apc, prsOut, prsErr, failed, sent, rpc, drawn, offReporter>>

\* case update := <-progress on the closed, drained channel: the zero value.
ReporterReceiveClosed ==
    /\ rpc = "select" /\ progressClosed /\ progress = <<>>
    /\ lastUpdate' = [repo |-> <<>>, action |-> ""]
    /\ UNCHANGED <<forkVars, sent, rpc, drawn, offReporter>>

\* case <-done: return
ReporterReturn ==
    /\ rpc = "select" /\ doneClosed
    /\ rpc' = "returned"
    /\ UNCHANGED <<forkVars, sent, lastUpdate, drawn, offReporter>>

\* When a redraw of the status line happens: while the batch runs, or once
\* done is closed.
DrawnNow == IF doneClosed THEN "late" ELSE "live"

\* case <-ticker.C: the ticker fires every 80 ms, whatever the other channels
\* hold; the select takes any one of its ready cases, and this one redraws the
\* status line on stderr.
ReporterTick ==
    /\ rpc = "select"
    /\ drawn' = drawn \cup {DrawnNow}
    /\ UNCHANGED <<forkVars, sent, rpc, lastUpdate, offReporter>>

LiveInit ==
    /\ disk = [fn \in FileNames |-> FileMissing]
    /\ RunStart
    /\ noCache = FALSE
    /\ remote \in {RemoteTable(n) : n \in 0 .. MaxBusy}
    /\ asProfile = "" /\ showAll = TRUE
    /\ inject = {}

LiveNext ==
    \/ MainCheckAuth
    \/ MainListForks
    \/ MainSpawn
    \/ \E w \in Workers : WorkerAcquire(w)
    \/ \E w \in Workers : WorkerSend(w)
    \/ \E w \in Workers : WorkerFinish(w)
    \/ \E w \in Workers : WorkerStoreResult(w)
    \/ \E w \in Workers : WorkerStoreError(w)
    \/ \E w \in Workers : WorkerRelease(w)
    \/ \E w \in Workers : WorkerDone(w)
    \/ MainWait
    \/ MainCloseDone
    \/ MainCloseProgress
    \/ MainCollect
    \/ MainFilter
    \/ MainSort
    \/ MainOutput
    \/ ReporterStart
    \/ ReporterReceive
    \/ ReporterReceiveClosed
    \/ ReporterTick
    \/ ReporterReturn

\* Every goroutine that can take its next step eventually takes it, and every
\* gh call returns.
LiveFairness ==
    /\ WF_vars(MainCheckAuth) /\ WF_vars(MainListForks) /\ WF_vars(MainSpawn)
    /\ WF_vars(MainWait) /\ WF_vars(MainCloseDone) /\ WF_vars(MainCloseProgress)
    /\ WF_vars(MainCollect) /\ WF_vars(MainFilter) /\ WF_vars(MainSort) /\ WF_vars(MainOutput)
    /\ WF_vars(ReporterStart) /\ WF_vars(ReporterReceive) /\ WF_vars(ReporterReturn)
    /\ \A w \in 1 .. MaxBusy :
          /\ WF_vars(w \in Workers /\ WorkerAcquire(w))
          /\ WF_vars(w \in Workers /\ WorkerSend(w))
          /\ WF_vars(w \in Workers /\ WorkerFinish(w))
          /\ WF_vars(w \in Workers /\ WorkerStoreResult(w))
          /\ WF_vars(w \in Workers /\ WorkerStoreError(w))
          /\ WF_vars(w \in Workers /\ WorkerRelease(w))
          /\ WF_vars(w \in Workers /\ WorkerDone(w))
SpecLive == LiveInit /\ [][LiveNext]_vars /\ LiveFairness

\* The run has returned; when it analysed forks, every worker sent its updates,
\* gave its permit back and is done, and every fork has its result.
RunOver ==
    \/ mpc = "exit"
    \/ /\ mpc = "returned"
       /\ \A w \in DOMAIN wpc : wpc[w] = "done" /\ Sent(w) = Len(UpdatesOf(forks[w]))
       /\ sem = 0 /\ wg = 0
       /\ Len(finalResults) = Len(forks)
       /\ \A i \in DOMAIN forks : \E k \in DOMAIN shown : shown[k].FullName = forks[i].FullName

HasGHUser(profile) == profile \in DOMAIN ProfileStore /\ ProfileStore[profile].GHUser # ""

\* C25: under --as, a profile without a GitHub user fails the first call with
\* no directory made and no gh call executed; otherwise every gh call ran with
\* GH_CONFIG_DIR set to the one directory made for the run, which exists while
\* the run goes on; and when run has returned, by whichever path, no directory
\* is left.
C25_IdentityScopedAndRemoved ==
    /\ (asProfile # "" /\ ~HasGHUser(asProfile)) =>
          /\ made = 0 /\ tmpDirs = {} /\ ghEnv = {}
          /\ mpc \in {"checkAuth", "exit"}
          /\ mpc = "exit" => runErr = ErrAuth(asProfile)
    /\ asProfile # "" =>
          /\ made <= 1
          /\ ghEnv \subseteq {tmpDir} \ {0}
          /\ (ghEnv # {} /\ mpc \notin {"exit", "returned"}) => tmpDirs = {tmpDir}
    /\ asProfile = "" => made = 0 /\ tmpDirs = {} /\ ghEnv \subseteq {0}
    /\ mpc \in {"exit", "returned"} => tmpDirs = {}

\* A run under --as work made its directory, analysed forks with it and has
\* returned.
C25_Witness ==
    /\ asProfile = "work" /\ mpc = "returned"
    /\ made = 1 /\ ghEnv = {tmpDir} /\ tmpDir # 0
    /\ effects.analyses > 1

\* C26: the analysis of a repository without a parent has sent the one update
\* of the branch listing and none of the upstream steps', has left the cache
\* directory and the clock alone, returns the counts and the upstream fields at
\* zero and a category that follows from the non-default branches alone, and
\* its Fork is one the collecting loop keeps.
C26_NoParent ==
    (apc = "returned" /\ repo.Parent.nil) =>
        /\ progress = <<Update(repo, "fetching branches")>>
        /\ failed \subseteq {"branch listing", "date of feature", "date of fix"}
        /\ disk = disk0 /\ clock = 0
        /\ fork.Ahead = 0 /\ fork.Behind = 0
        /\ fork.UpstreamLast = <<>> /\ fork.UpstreamAgo = <<>>
        /\ fork.ParentName = <<>> /\ fork.ParentFullName = <<>>
        /\ NoLinkedPR(fork)
        /\ fork.Category = IF NonDefaultBranches(fork) > 0 THEN CategoryContribution
                           ELSE CategoryUntouched
        /\ Kept(<<fork>>, <<NoErr>>, 1)

\* A repository without a parent came back with its three branches listed.
C26_Witness ==
    /\ apc = "returned" /\ repo.Parent.nil
    /\ Len(fork.Branches) > 2
    /\ fork.Category = CategoryContribution

\* C27: every analysed fork has Untouched exactly when its category is
\* untouched; without --all the list shown holds no untouched fork and every
\* analysed fork that is maintained or a contribution; with --all it holds
\* every analysed fork.
C27_UntouchedFilter ==
    mpc \in {"output", "returned"} =>
        /\ \A k \in DOMAIN finalResults :
              finalResults[k].Untouched = (finalResults[k].Category = CategoryUntouched)
        /\ Range(shown) \subseteq Range(finalResults)
        /\ showAll => SamePopulation(shown, finalResults)
        /\ ~showAll =>
              /\ \A k \in DOMAIN shown : shown[k].Category # CategoryUntouched
              /\ \A k \in DOMAIN finalResults :
                    finalResults[k].Category \in {CategoryMaintained, CategoryContribution}
                        => Count(shown, finalResults[k]) = Count(finalResults, finalResults[k])

\* Without --all, an untouched fork was analysed and dropped and another fork
\* is shown.
C27_Witness ==
    /\ mpc = "output" /\ ~showAll
    /\ shown # <<>> /\ Len(shown) < Len(finalResults)

\* ============================================================ llm advice
\* internal/llmadvice: the cache of LLM advice of git-explain.

\* Calls one behaviour makes of the llmadvice package.
MaxCalls == 2

\* Strings are sequences of bytes; "xFE" and "xFF" stand for the bytes 0xFE and
\* 0xFF, which no UTF-8 encoding contains.
InvalidBytes == {"xFE", "xFF"}

\* No DirtyDetails (a nil pointer), and one with the given counts.
NoDirty == [nil |-> TRUE, StagedFiles |-> 0, UnstagedFiles |-> 0, Untracked |-> 0]
Dirty(staged, unstaged, untracked) ==
    [nil |-> FALSE, StagedFiles |-> staged, UnstagedFiles |-> unstaged, Untracked |-> untracked]

\* A clean repository on its main branch, and the repositories that differ from
\* it in one field of the state.
InfoBase ==
    [Name |-> <<"r">>, Path |-> <<"r">>, CurrentBranch |-> <<"m">>, Ahead |-> 0, Behind |-> 0,
     StashCount |-> 0, IsFork |-> FALSE, TotalUserCommits |-> 1, DirtyDetails |-> NoDirty]
InfoOther == [InfoBase EXCEPT !.Path = <<"s">>, !.Name = <<"s">>]
AdviceInfos ==
    {InfoBase, InfoOther,
     [InfoBase EXCEPT !.Path = <<"r", "xFE">>],
     [InfoBase EXCEPT !.Path = <<"r", "xFF">>],
     [InfoBase EXCEPT !.CurrentBranch = <<"d">>],
     [InfoBase EXCEPT !.Ahead = 1],
     [InfoBase EXCEPT !.Behind = 1],
     [InfoBase EXCEPT !.StashCount = 1],
     [InfoBase EXCEPT !.IsFork = TRUE],
     [InfoBase EXCEPT !.TotalUserCommits = 2],
     [InfoBase EXCEPT !.DirtyDetails = Dirty(0, 0, 0)],
     [InfoBase EXCEPT !.DirtyDetails = Dirty(1, 0, 0)],
     [InfoBase EXCEPT !.DirtyDetails = Dirty(0, 1, 0)],
     [InfoBase EXCEPT !.DirtyDetails = Dirty(0, 0, 1)]}
\* The custom instructions: none, or one word.
NoInstructions == <<>>
AdviceInstructions == {NoInstructions, <<"t">>}
\* The states advice is asked for: every repository without instructions, and
\* the clean one with instructions.
AdviceStates ==
    {<<info, NoInstructions>> : info \in AdviceInfos} \cup {<<InfoBase, <<"t">>>>}
\* What a provider answers: lists of advice lines.
AdviceLists == {<<"commit">>, <<"push">>}
\* The lists of repositories a multi-repo call is made with.
AdviceRepoLists ==
    {<<InfoBase>>, <<InfoBase, InfoOther>>, <<InfoOther, InfoBase>>}

ProviderOpenAI == "openai"
openAIModel == "gpt-4o-mini"

\* encoding/json on a string: a byte that is not part of valid UTF-8 is written
\* as the replacement rune, every other byte as itself (escapes are one to one).
MarshalString(str) ==
    [i \in DOMAIN str |-> IF str[i] \in InvalidBytes THEN "\\ufffd" ELSE str[i]]

\* sha256.Sum256 and hex.EncodeToString: the digest names its input (no two
\* inputs met here share a digest).
Sum256(data) == [sha256 |-> data]

\* computeStateHash: the digest of the JSON of the CacheKey.
computeStateHash(info, instructions) ==
    LET dd == info.DirtyDetails
        key == <<MarshalString(info.Path), MarshalString(info.CurrentBranch),
                 info.Ahead, info.Behind,
                 IF dd.nil THEN 0 ELSE dd.StagedFiles,
                 IF dd.nil THEN 0 ELSE dd.UnstagedFiles,
                 IF dd.nil THEN 0 ELSE dd.Untracked,
                 info.StashCount, info.IsFork, info.TotalUserCommits,
                 MarshalString(instructions)>>
    IN Sum256([key |-> key, list |-> <<>>])

\* computeMultiRepoStateHash: the digest of the JSON list of the repositories' hashes.
computeMultiRepoStateHash(repos, instructions) ==
    Sum256([key |-> <<>>,
            list |-> [i \in DOMAIN repos |-> computeStateHash(repos[i], instructions)]])

\* A cache file: an entry as json.MarshalIndent writes it, or (short) a file
\* that os.WriteFile truncated and did not fill.
ZeroEntry == [short |-> FALSE, StateHash |-> [sha256 |-> <<>>], Provider |-> <<>>, Model |-> <<>>,
              Advice |-> <<>>]
ShortFile == [ZeroEntry EXCEPT !.short = TRUE]

\* readCacheByHash
readCacheByHash(cache, stateHash) ==
    IF stateHash \notin DOMAIN cache
    THEN [entry |-> ZeroEntry, err |-> "no such file"]
    ELSE IF cache[stateHash].short
    THEN [entry |-> ZeroEntry, err |-> "unexpected end of JSON input"]
    ELSE IF cache[stateHash].StateHash # stateHash
    THEN [entry |-> ZeroEntry, err |-> "cache hash mismatch"]
    ELSE [entry |-> cache[stateHash], err |-> NoErr]

\* What the file system does to a write of the cache: it succeeds, MkdirAll
\* fails, os.WriteFile fails to open the file, or it fails after truncating it.
WriteOutcomes == {"ok", "mkdir", "open", "short"}

\* writeCacheByHash
writeCacheByHash(cache, stateHash, provider, model, advice, outcome) ==
    LET entry == [short |-> FALSE, StateHash |-> stateHash, Provider |-> provider,
                  Model |-> model, Advice |-> advice]
    IN  CASE outcome = "ok" -> [cache |-> (stateHash :> entry) @@ cache, err |-> NoErr]
          [] outcome = "short" -> [cache |-> (stateHash :> ShortFile) @@ cache, err |-> "write"]
          [] OTHER -> [cache |-> cache, err |-> outcome]

\* Mutant of ReadCache: every read misses.
ReadCacheMiss(cache, info, instructions) == [entry |-> ZeroEntry, err |-> "no such file"]
\* ReadCache, ReadMultiCache, WriteCache, WriteMultiCache
ReadCache(cache, info, instructions) ==
    readCacheByHash(cache, computeStateHash(info, instructions))
ReadMultiCache(cache, repos, instructions) ==
    readCacheByHash(cache, computeMultiRepoStateHash(repos, instructions))
WriteCache(cache, info, instructions, provider, model, advice, outcome) ==
    writeCacheByHash(cache, computeStateHash(info, instructions), provider, model, advice, outcome)
WriteMultiCache(cache, repos, instructions, provider, model, advice, outcome) ==
    writeCacheByHash(cache, computeMultiRepoStateHash(repos, instructions), provider, model,
                     advice, outcome)

\* What the provider does in one call: no API key is set, the API fails, or it
\* answers; write is what the file system does to the write that follows.
Providers ==
    {[kind |-> "nokey", advice |-> <<>>, write |-> "ok"],
     [kind |-> "apierr", advice |-> <<>>, write |-> "ok"]}
    \cup {[kind |-> "ok", advice |-> a, write |-> o] : a \in AdviceLists, o \in WriteOutcomes}

\* GetLLMAdvice, GetMultiRepoLLMAdvice: whether the advice obtained is written to the cache.
KeepsAdvice(noCacheOpt) == ~noCacheOpt

\* GetLLMAdvice: the cache it leaves, what it returns and how often it called the provider.
GetLLMAdvice(cache, info, opts, prov) ==
    LET cached == ReadCache(cache, info, opts.Instructions)
    IN  IF ~opts.NoCache /\ cached.err = NoErr
        THEN [cache |-> cache, advice |-> cached.entry.Advice, err |-> NoErr, called |-> 0]
        ELSE IF prov.kind = "nokey"
        THEN [cache |-> cache, advice |-> <<>>, err |-> "no API key found", called |-> 0]
        ELSE IF prov.kind = "apierr"
        THEN [cache |-> cache, advice |-> <<>>, err |-> "API error", called |-> 1]
        ELSE [cache |-> IF KeepsAdvice(opts.NoCache)
                        THEN WriteCache(cache, info, opts.Instructions, ProviderOpenAI,
                                        openAIModel, prov.advice, prov.write).cache
                        ELSE cache,
              advice |-> prov.advice, err |-> NoErr, called |-> 1]

\* GetMultiRepoLLMAdvice with PerRepo: the repositories from the i-th on, one
\* GetLLMAdvice each, a repository whose call fails being skipped.
RECURSIVE PerRepoAdvice(_, _, _, _, _, _, _)
PerRepoAdvice(cache, repos, opts, provs, i, perRepo, called) ==
    IF i > Len(repos)
    THEN [cache |-> cache, summary |-> <<>>, perRepo |-> perRepo, err |-> NoErr, called |-> called]
    ELSE LET one == GetLLMAdvice(cache, repos[i], opts, provs[i])
         IN  PerRepoAdvice(one.cache, repos, opts, provs, i + 1,
                           IF one.err = NoErr
                           THEN (repos[i].Name :> one.advice) @@ perRepo
                           ELSE perRepo,
                           called + one.called)

\* GetMultiRepoLLMAdvice
GetMultiRepoLLMAdvice(cache, repos, opts, provs) ==
    LET cached == ReadMultiCache(cache, repos, opts.Instructions)
        prov == provs[1]
        none == [cache |-> cache, summary |-> <<>>, perRepo |-> <<>>, err |-> NoErr, called |-> 0]
    IN  IF opts.PerRepo
        THEN PerRepoAdvice(cache, repos, opts, provs, 1, <<>>, 0)
        ELSE IF ~opts.NoCache /\ cached.err = NoErr
        THEN [none EXCEPT !.summary = cached.entry.Advice]
        ELSE IF prov.kind = "nokey"
        THEN [none EXCEPT !.err = "no API key found"]
        ELSE IF prov.kind = "apierr"
        THEN [none EXCEPT !.err = "API error", !.called = 1]
        ELSE [none EXCEPT
                !.cache = IF KeepsAdvice(opts.NoCache)
                          THEN WriteMultiCache(cache, repos, opts.Instructions, ProviderOpenAI,
                                               openAIModel, prov.advice, prov.write).cache
                          ELSE cache,
                !.summary = prov.advice, !.called = 1]

\* The options of a call.
Options(noCacheOpt, perRepo, instructions) ==
    [Provider |-> ProviderOpenAI, NoCache |-> noCacheOpt, PerRepo |-> perRepo,
     Instructions |-> instructions]

\* One entry of the history: the call, its arguments and what it returned.
\* write is what the file system would do to a write of the cache made by the call.
Logged(op, repos, opts, entry, advice, perRepo, err, called, write) ==
    [op |-> op, repos |-> repos, opts |-> opts, entry |-> entry, advice |-> advice,
     perRepo |-> perRepo, err |-> err, called |-> called, write |-> write]

offAdvice == <<storeVars, harnessVars, forkVars, runVars, inputVars, lateVars, raceVars,
               reporterVars, identityVars, configVars, dirVars>>

\* A direct call of WriteCache.
CallWriteCache ==
    /\ Len(adviceLog) < MaxCalls
    /\ \E st \in AdviceStates, advice \in AdviceLists, outcome \in WriteOutcomes :
          LET w == WriteCache(adviceCache, st[1], st[2], ProviderOpenAI, openAIModel, advice,
                              outcome)
          IN  /\ adviceCache' = w.cache
              /\ adviceLog' = Append(adviceLog,
                    Logged("WriteCache", <<st[1]>>, Options(FALSE, FALSE, st[2]),
                           [ZeroEntry EXCEPT !.Provider = ProviderOpenAI, !.Model = openAIModel,
                                             !.Advice = advice],
                           advice, <<>>, w.err, 0, outcome))
    /\ UNCHANGED offAdvice

\* A direct call of ReadCache.
CallReadCache ==
    /\ Len(adviceLog) < MaxCalls
    /\ \E st \in AdviceStates :
          LET r == ReadCache(adviceCache, st[1], st[2])
          IN  adviceLog' = Append(adviceLog,
                    Logged("ReadCache", <<st[1]>>, Options(FALSE, FALSE, st[2]), r.entry,
                           r.entry.Advice, <<>>, r.err, 0, "ok"))
    /\ UNCHANGED <<adviceCache, offAdvice>>

\* git-explain asks for the advice on one repository.
CallGetLLMAdvice ==
    /\ Len(adviceLog) < MaxCalls
    /\ \E st \in AdviceStates, nc \in BOOLEAN, prov \in Providers :
          LET opts == Options(nc, FALSE, st[2])
              g == GetLLMAdvice(adviceCache, st[1], opts, prov)
          IN  /\ adviceCache' = g.cache
              /\ adviceLog' = Append(adviceLog,
                    Logged("GetLLMAdvice", <<st[1]>>, opts, ZeroEntry, g.advice, <<>>, g.err,
                           g.called, prov.write))
    /\ UNCHANGED offAdvice

\* git-explain asks for the advice on several repositories.
CallGetMultiRepoLLMAdvice ==
    /\ Len(adviceLog) < MaxCalls
    /\ \E repos \in AdviceRepoLists, nc \in BOOLEAN, pr \in BOOLEAN,
          p1 \in Providers, p2 \in {p \in Providers : p.write = "ok"} :
          LET opts == Options(nc, pr, NoInstructions)
              g == GetMultiRepoLLMAdvice(adviceCache, repos, opts, <<p1, p2>>)
          IN  /\ adviceCache' = g.cache
              /\ adviceLog' = Append(adviceLog,
                    Logged("GetMultiRepoLLMAdvice", repos, opts, ZeroEntry, g.summary,
                           g.perRepo, g.err, g.called, p1.write))
    /\ UNCHANGED offAdvice

\* Everything but the advice cache is idle; the cache directory is empty.
AdviceInit ==
    /\ disk = [fn \in FileNames |-> FileMissing]
    /\ fs = HealthyFS /\ clock = 0 /\ crashed = FALSE
    /\ call = NoCall /\ ForkIdle /\ RunIdle

AdviceNext ==
    \/ CallWriteCache
    \/ CallReadCache
    \/ CallGetLLMAdvice
    \/ CallGetMultiRepoLLMAdvice

SpecAdvice == AdviceInit /\ [][AdviceNext]_vars

\* The fields of the repository state the documentation keys the cache by, and
\* the instructions.
StateFields(info, instructions) ==
    <<info.Path, info.CurrentBranch, info.Ahead, info.Behind,
      IF info.DirtyDetails.nil THEN 0 ELSE info.DirtyDetails.StagedFiles,
      IF info.DirtyDetails.nil THEN 0 ELSE info.DirtyDetails.UnstagedFiles,
      IF info.DirtyDetails.nil THEN 0 ELSE info.DirtyDetails.Untracked,
      info.StashCount, info.IsFork, info.TotalUserCommits, instructions>>
\* Two calls are made on the same repositories in the same state with the same instructions.
SameState(c, d) ==
    /\ Len(c.repos) = Len(d.repos)
    /\ \A i \in DOMAIN c.repos :
          StateFields(c.repos[i], c.opts.Instructions) = StateFields(d.repos[i], d.opts.Instructions)

\* A call that asks for advice in one request: GetLLMAdvice, or
\* GetMultiRepoLLMAdvice in combined mode.
AsksOnce(c) == c.op \in {"GetLLMAdvice", "GetMultiRepoLLMAdvice"} /\ ~c.opts.PerRepo

\* C28: a call with the no-cache option that returns advice has called the
\* provider, and, the file system allowing the write, the same call made next
\* without the option on the same state returns that advice from the cache
\* without calling the provider.
C28_BypassStillWrites ==
    \A k \in DOMAIN adviceLog :
        LET c == adviceLog[k]
        IN  AsksOnce(c) /\ c.opts.NoCache /\ c.err = NoErr =>
              /\ c.called = 1
              /\ \A j \in DOMAIN adviceLog :
                    LET d == adviceLog[j]
                    IN  j = k + 1 /\ c.write = "ok" /\ d.op = c.op /\ AsksOnce(d)
                        /\ ~d.opts.NoCache /\ SameState(c, d)
                        => d.called = 0 /\ d.err = NoErr /\ d.advice = c.advice

\* Call c wrote the advice for the state of repository info under the instructions.
WroteFor(c, info, instructions, advice) ==
    LET same(i) == StateFields(c.repos[i], c.opts.Instructions) = StateFields(info, instructions)
    IN  \/ c.op = "WriteCache" /\ c.err = NoErr /\ same(1) /\ c.advice = advice
        \/ /\ c.op = "GetLLMAdvice" /\ c.called = 1 /\ c.err = NoErr /\ ~c.opts.NoCache
           /\ same(1) /\ c.advice = advice
        \/ /\ c.op = "GetMultiRepoLLMAdvice" /\ c.opts.PerRepo /\ ~c.opts.NoCache
           /\ \E i \in DOMAIN c.repos :
                 /\ same(i) /\ c.repos[i].Name \in DOMAIN c.perRepo
                 /\ c.perRepo[c.repos[i].Name] = advice

\* C29: a ReadCache that follows a successful WriteCache of the same state and
\* instructions returns the provider, model and advice written; a ReadCache
\* that returns an entry returns what an earlier call wrote for the same state
\* and instructions, so a read of a state nothing was written for is a miss.
C29_KeyedByState ==
    \A k \in DOMAIN adviceLog :
        LET r == adviceLog[k]
        IN  r.op = "ReadCache" =>
              /\ \A j \in DOMAIN adviceLog :
                    LET w == adviceLog[j]
                    IN  j = k - 1 /\ w.op = "WriteCache" /\ w.err = NoErr /\ SameState(w, r)
                        => /\ r.err = NoErr
                           /\ r.entry.Provider = w.entry.Provider
                           /\ r.entry.Model = w.entry.Model
                           /\ r.entry.Advice = w.entry.Advice
              /\ r.err = NoErr =>
                    \E j \in 1 .. k - 1 :
                        WroteFor(adviceLog[j], r.repos[1], r.opts.Instructions, r.entry.Advice)

\* ======================================================= identity profiles
\* internal/identity: the profiles git-as keeps in the global git config, here
\* one file (~/.gitconfig) with no includes.

\* Calls one behaviour makes of the identity package.
MaxEdits == 3

profileKeys == <<"sshkey", "email", "user", "ghuser">>
\* The keys SetField is called with: the four of a profile and one that is none.
FieldKeys == Range(profileKeys) \cup {"name"}
ProfileNames == {"w", "p"}
\* The values a field is given; <<"a", " ">> ends in a space.
FieldValues(key) ==
    CASE key = "sshkey" -> {<<>>, <<"k">>}
      [] key = "email" -> {<<>>, <<"a">>, <<"b">>, <<"a", " ">>}
      [] key = "user" -> {<<>>, <<"u">>}
      [] key = "ghuser" -> {<<>>, <<"g">>}
      [] OTHER -> {<<"v">>}

\* strings.TrimSpace
RECURSIVE TrimSpace(_)
TrimSpace(str) ==
    IF str = <<>> THEN <<>>
    ELSE IF Head(str) = " " THEN TrimSpace(Tail(str))
    ELSE IF str[Len(str)] = " " THEN TrimSpace(SubSeq(str, 1, Len(str) - 1))
    ELSE str

\* git config --get identity.<name>.<key>: the value and a newline, or exit status 1.
gitConfigGet(cfg, name, key) ==
    IF <<name, key>> \in DOMAIN cfg
    THEN [out |-> cfg[<<name, key>>] \o <<"\n">>, err |-> FALSE]
    ELSE [out |-> <<>>, err |-> TRUE]

\* Mutant of removeSection: the section stays.
removeSectionKept(cfg, name) == cfg
\* git config --remove-section identity.<name>
removeSection(cfg, name) ==
    [k \in {k \in DOMAIN cfg : k[1] # name} |-> cfg[k]]

\* getConfigValue
getConfigValue(cfg, profile, key) ==
    LET got == gitConfigGet(cfg, profile, key)
    IN  IF got.err THEN [val |-> <<>>, err |-> TRUE]
        ELSE [val |-> TrimSpace(got.out), err |-> FALSE]

\* The field of a Profile a key names.
FieldOf(p, key) ==
    CASE key = "sshkey" -> p.SSHKey
      [] key = "email" -> p.Email
      [] key = "user" -> p.User
      [] key = "ghuser" -> p.GHUser

\* Get
Get(cfg, name) ==
    LET field(key) == LET got == getConfigValue(cfg, name, key)
                      IN  IF got.err THEN <<>> ELSE got.val
        p == [Name |-> name, SSHKey |-> field("sshkey"), Email |-> field("email"),
              User |-> field("user"), GHUser |-> field("ghuser")]
    IN  IF p.SSHKey = <<>> /\ p.Email = <<>> /\ p.User = <<>> /\ p.GHUser = <<>>
        THEN [p |-> [p EXCEPT !.Name = ""], err |-> "not found"]
        ELSE [p |-> p, err |-> NoErr]

\* GetSourceFile: whether some key of the profile is found in the file.
GetSourceFile(cfg, name) ==
    IF \E i \in DOMAIN profileKeys : ~gitConfigGet(cfg, name, profileKeys[i]).err
    THEN NoErr ELSE "not found in any config file"

\* setConfigValue: git config --file <file> identity.<profile>.<key> <value>
setConfigValue(cfg, profile, key, value) ==
    (<<profile, key>> :> value) @@ cfg

\* Set writes the fields of p that are not empty, one after the other.
RECURSIVE WriteFields(_, _, _)
WriteFields(cfg, p, i) ==
    IF i > Len(profileKeys) THEN cfg
    ELSE LET key == profileKeys[i]
         IN  WriteFields(IF FieldOf(p, key) # <<>>
                         THEN setConfigValue(cfg, p.Name, key, FieldOf(p, key))
                         ELSE cfg,
                         p, i + 1)

\* verifyWrite
verifyWrite(cfg, p) ==
    LET bad(key) ==
            /\ FieldOf(p, key) # <<>>
            /\ \/ gitConfigGet(cfg, p.Name, key).err
               \/ TrimSpace(gitConfigGet(cfg, p.Name, key).out) # FieldOf(p, key)
    IN  IF \E i \in DOMAIN profileKeys : bad(profileKeys[i]) THEN "write failed" ELSE NoErr

\* verifyEffective
verifyEffective(cfg, p) ==
    LET bad(key) ==
            /\ FieldOf(p, key) # <<>>
            /\ \/ getConfigValue(cfg, p.Name, key).err
               \/ getConfigValue(cfg, p.Name, key).val # FieldOf(p, key)
    IN  IF \E i \in DOMAIN profileKeys : bad(profileKeys[i])
        THEN "another config file is overriding" ELSE NoErr

\* Set: the config it leaves and the error it returns.
Set(cfg, p, opts) ==
    LET written == WriteFields(cfg, p, 1)
    IN  IF verifyWrite(written, p) # NoErr
        THEN [cfg |-> written, err |-> verifyWrite(written, p)]
        ELSE IF ~opts.Detached /\ verifyEffective(written, p) # NoErr
        THEN [cfg |-> written, err |-> verifyEffective(written, p)]
        ELSE [cfg |-> written, err |-> NoErr]

\* SetField
SetField(cfg, name, key, value, opts) ==
    IF key \notin Range(profileKeys)
    THEN [cfg |-> cfg, err |-> "invalid key"]
    ELSE IF GetSourceFile(cfg, name) # NoErr
    THEN [cfg |-> cfg, err |-> "not found"]
    ELSE LET written == setConfigValue(cfg, name, key, value)
             got == gitConfigGet(written, name, key)
             val == getConfigValue(written, name, key)
         IN  IF got.err \/ TrimSpace(got.out) # value
             THEN [cfg |-> written, err |-> "write failed"]
             ELSE IF ~opts.Detached /\ (val.err \/ val.val # value)
             THEN [cfg |-> written, err |-> "another config file is overriding"]
             ELSE [cfg |-> written, err |-> NoErr]

\* Remove
Remove(cfg, name) ==
    IF GetSourceFile(cfg, name) # NoErr
    THEN [cfg |-> cfg, err |-> GetSourceFile(cfg, name)]
    ELSE [cfg |-> removeSection(cfg, name), err |-> NoErr]

SetOptions(detached) == [File |-> "", Yes |-> FALSE, Detached |-> detached]
ZeroProfile == [Name |-> "", SSHKey |-> <<>>, Email |-> <<>>, User |-> <<>>, GHUser |-> <<>>]
\* The profiles Set is called with.
ProfileInputs ==
    {[Name |-> n, SSHKey |-> k, Email |-> e, User |-> u, GHUser |-> g] :
        n \in ProfileNames, k \in FieldValues("sshkey"), e \in FieldValues("email"),
        u \in FieldValues("user"), g \in FieldValues("ghuser")}
\* The history of one call: its arguments, its error and the config it found.
Edited(op, name, key, value, p, err) ==
    <<[op |-> op, name |-> name, key |-> key, value |-> value, p |-> p, err |-> err,
       before |-> gitConfig]>>

offConfig == <<storeVars, harnessVars, forkVars, runVars, inputVars, lateVars, raceVars,
               reporterVars, identityVars, adviceVars, dirVars>>

CallSet ==
    /\ edits < MaxEdits
    /\ \E p \in ProfileInputs, detached \in BOOLEAN :
          LET r == Set(gitConfig, p, SetOptions(detached))
          IN  /\ gitConfig' = r.cfg
              /\ lastEdit' = Edited("Set", p.Name, "", <<>>, p, r.err)
    /\ edits' = edits + 1
    /\ UNCHANGED offConfig

CallSetField ==
    /\ edits < MaxEdits
    /\ \E name \in ProfileNames, key \in FieldKeys, detached \in BOOLEAN :
          \E value \in FieldValues(key) :
              LET r == SetField(gitConfig, name, key, value, SetOptions(detached))
              IN  /\ gitConfig' = r.cfg
                  /\ lastEdit' = Edited("SetField", name, key, value, ZeroProfile, r.err)
    /\ edits' = edits + 1
    /\ UNCHANGED offConfig

CallRemove ==
    /\ edits < MaxEdits
    /\ \E name \in ProfileNames :
          LET r == Remove(gitConfig, name)
          IN  /\ gitConfig' = r.cfg
              /\ lastEdit' = Edited("Remove", name, "", <<>>, ZeroProfile, r.err)
    /\ edits' = edits + 1
    /\ UNCHANGED offConfig

ConfigNext ==
    \/ CallSet
    \/ CallSetField
    \/ CallRemove

\* The global git config holds no identity; everything else is idle.
ConfigInit == AdviceInit

SpecConfig == ConfigInit /\ [][ConfigNext]_vars

\* The value Get reads for one key ("" when the key is not set).
Stored(cfg, name, key) == getConfigValue(cfg, name, key).val
\* Get(name) returns the profile with the given fields, or fails with "not
\* found" when all of them are empty.
GetReturns(name, want) ==
    LET g == Get(gitConfig, name)
    IN  IF \A i \in DOMAIN profileKeys : want[profileKeys[i]] = <<>>
        THEN g.err = "not found"
        ELSE /\ g.err = NoErr /\ g.p.Name = name
             /\ \A i \in DOMAIN profileKeys : FieldOf(g.p, profileKeys[i]) = want[profileKeys[i]]

BranchesListed == apc \in {"prs", "categorize", "returned"}
\* Every branch but the default one has had its commit date looked up: it has
\* a date exactly when the lookup did not fail; no lookup was made for the
\* default branch.
LookupsPerBranch ==
    /\ "date of main" \notin failed
    /\ \A i \in DOMAIN fork.Branches :
          LET b == fork.Branches[i]
          IN  ~b.IsDefault =>
                /\ (b.Date = <<>>) = (("date of " \o b.Name) \in failed)
                /\ (b.DateAgo = <<>>) = (b.Date = <<>>)

\* C31 as stated: one lookup per non-default branch and none for the default
\* branch, whose Branch record carries the commit date and age of the fork.
C31_DefaultBranchDate ==
    BranchesListed =>
        /\ LookupsPerBranch
        /\ \A i \in DOMAIN fork.Branches :
              fork.Branches[i].IsDefault =>
                  /\ fork.Branches[i].Date = fork.ForkLastCommit
                  /\ fork.Branches[i].DateAgo = fork.ForkLastAgo

\* C31, amended: one lookup per non-default branch and none for the default
\* branch, whose Branch record carries no commit date and no age; the date of
\* the default branch is held by the Fork alone.
C31_DefaultBranchUndated ==
    BranchesListed =>
        /\ LookupsPerBranch
        /\ \A i \in DOMAIN fork.Branches :
              fork.Branches[i].IsDefault =>
                  fork.Branches[i].Date = <<>> /\ fork.Branches[i].DateAgo = <<>>

\* A fork whose last commit date was fetched came back with its default branch
\* and a dated branch beside it.
C31_Witness ==
    /\ apc = "returned" /\ fork.ForkLastCommit # <<>>
    /\ \E i, j \in DOMAIN fork.Branches :
          /\ fork.Branches[i].IsDefault
          /\ ~fork.Branches[j].IsDefault /\ fork.Branches[j].Date # <<>>

\* The entries a cache file holds for the number n (none or one).
EntryOf(file, n) == {m.val : m \in {e \in FileEntries(file) : e.key = n}}

\* C32: a savePRCache that returned no error has replaced the entry of number
\* n by the merged or closed pull request of that number in the list saved,
\* and has left the entry of every other number as it was (absent, or as
\* cached), also when the list holds the number in state OPEN.
C32_TerminalObservationOnly ==
    (call.op = "save" /\ ~call.err /\ ~crashed) =>
        \A n \in PRNums :
            LET terminal == {i \in DOMAIN call.prs :
                               call.prs[i].Number = n /\ IsTerminal(call.prs[i].State)}
            IN  IF terminal = {}
                THEN EntryOf(disk[cacheFileName(call.up)], n) = EntryOf(call.before, n)
                ELSE EntryOf(disk[cacheFileName(call.up)], n) =
                        {ToCachedPR(call.prs[i]) : i \in terminal}

\* A save whose list reports a cached pull request as OPEN again has kept the
\* cached terminal entry.
C32_Witness ==
    /\ call.op = "save" /\ ~call.err /\ ~crashed
    /\ \E i \in DOMAIN call.prs :
          /\ call.prs[i].State = PRStateOpen
          /\ EntryOf(call.before, call.prs[i].Number) # {}
          /\ EntryOf(disk[cacheFileName(call.up)], call.prs[i].Number)
                = EntryOf(call.before, call.prs[i].Number)

\* ------------------------------------------- cache files of several upstreams
\* The cache store called for three upstreams: a/l, a/b_c (a repository whose
\* name holds an underscore) and a_b/c (an owner whose name holds one, as the
\* user names of managed enterprise accounts do).
UpUnderRepo == <<"a", "/", "b", "_", "c">>
UpUnderOwner == <<"a", "_", "b", "/", "c">>
IsoUpstreams == {UpLib, UpUnderRepo, UpUnderOwner}
IsoFiles == {cacheFileName(u) : u \in IsoUpstreams}

IsolateInit ==
    /\ disk = [fn \in IsoFiles |-> FileMissing]
    /\ fs = HealthyFS /\ clock = 0 /\ crashed = FALSE
    /\ call = NoCall /\ ForkIdle /\ RunIdle

IsolateNext ==
    \/ \E up \in IsoUpstreams : CallGetPRs(up)
    \/ \E up \in IsoUpstreams : CallSave(up)
    \/ \E up \in IsoUpstreams : CallLoad(up)
    \/ Return

SpecIsolate == IsolateInit /\ [][IsolateNext]_vars

\* What loadPRCache returns for an upstream.
LoadedFor(up) == loadPRCache(disk, fs, up).cache.PRs

\* C33: no call of the cache store made for one upstream changes what
\* loadPRCache returns for another upstream: the files of distinct upstream
\* full names are distinct.
C33_PerUpstreamIsolation ==
    [][\A up \in IsoUpstreams : up # call'.up => LoadedFor(up)' = LoadedFor(up)]_vars

\* C34: the branches linkPRsToBranches has linked are linked to the same pull
\* requests by every other order of the list it was given.
C34_LinkOrderIndependent ==
    (apc = "categorize" /\ ~repo.Parent.nil /\ ~prsErr /\ ~crashed) =>
        \A perm \in Orderings(Range(prsOut)) :
            linkPRsToBranches(fork, perm).Branches = fork.Branches

\* The pull requests linked to the branches of each fork of a list.
LinkedOf(list) ==
    [k \in DOMAIN list |-> [b \in DOMAIN list[k].Branches |-> list[k].Branches[b].PR]]

\* The Forks of the run in which the analyses run one after the other in index
\* order, from the i-th on, on the cache directory d: one list per way the
\* calls may come out.
RECURSIVE InIndexOrder(_, _)
InIndexOrder(i, d) ==
    IF i > Len(remote) THEN {<<>>}
    ELSE UNION {{<<o.fork>> \o t : t \in InIndexOrder(i + 1, o.disk)} :
                  o \in analyzeFork(remote[i].repo, remote[i].script, d, fs, noCache, clock)}

\* C35: whatever the interleaving of the workers, the pull requests linked to
\* the branches of every fork are those of the run in which the analyses made
\* their cache loads and saves one after the other in index order.
C35_LinkedIndependentOfTiming ==
    (mpc = "collect" /\ ~crashed) =>
        LinkedOf(results) \in {LinkedOf(t) : t \in InIndexOrder(1, disk0)}

\* C36: close(progress) runs on the open channel, and once the channel is
\* closed it stays closed, every worker has returned and has no update left to
\* send; no update is sent on the closed channel.
C36_ProgressClosedSafely ==
    /\ mpc = "closeProgress" => ~progressClosed
    /\ progressClosed =>
          /\ mpc \in {"collect", "collected", "sort", "output", "returned"}
          /\ \A w \in DOMAIN wpc :
                wpc[w] = "done" /\ Sent(w) = Len(UpdatesOf(forks[IdxOf(w)]))

\* The channel is closed after several workers have sent their updates on it.
C36_Witness ==
    /\ progressClosed /\ mpc = "collect"
    /\ Len(forks) > 1
    /\ \A w \in DOMAIN wpc : Sent(w) > 1


\* C37: once the main flow has passed wg.Wait() and closed done, the reporter
\* goroutine never redraws the status line again: no redraw happens after
\* close(done), so none follows or interleaves with the warnings, the summary
\* or the results.
C37_ReporterQuiet == "late" \notin drawn


\* A gh call other than checkAuth's is about to be made: the enumeration, or
\* the analysis of a worker.
LaterGhCall == mpc = "listForks" \/ \E w \in DOMAIN wpc : wpc[w] = "running"

\* C38: the credential directory is set up at most once and never by a worker.
\* g.tmpDir is written and a directory is made only by the step of checkAuth,
\* which finds no directory made yet; every later gh call of a run under a
\* profile finds g.tmpDir set, so it does not enter setupIdentity, and the
\* workers only read g.tmpDir.
C38_SetupOnceByMain ==
    [][/\ (tmpDir' # tmpDir \/ made' # made \/ tmpDirs' \ tmpDirs # {})
            => mpc = "checkAuth" /\ tmpDir = 0 /\ made = 0 /\ made' = 1
       /\ asProfile # "" /\ LaterGhCall => tmpDir # 0]_vars
\* Two workers have run their analyses under a profile whose directory
\* checkAuth made, and every gh call of the run was pointed at it.
C38_Witness ==
    /\ asProfile = "work" /\ made = 1 /\ tmpDir # 0
    /\ Len(forks) > 1
    /\ \A w \in DOMAIN wpc : wpc[w] \notin {"new", "spawned", "running"}
    /\ ghEnv = {tmpDir}


\* The cache holds an entry for a repository state and instructions: the file
\* named after their hash is whole and carries that hash.
HoldsEntry(cache, info, instructions) ==
    LET h == computeStateHash(info, instructions)
    IN  h \in DOMAIN cache /\ ~cache[h].short /\ cache[h].StateHash = h

\* C39: a cache hit never reaches the provider. A call of GetLLMAdvice with
\* caching enabled that finds an entry for the state and instructions returns
\* the entry's advice without error, whatever the provider would have done
\* (no key, API error), sends no request and leaves the cache as it is; the
\* provider is called only on a miss or under no-cache; a call that fails
\* returns no advice and leaves the cache as it is.
C39_HitSkipsProvider ==
    [][Len(adviceLog') > Len(adviceLog) /\ adviceLog'[Len(adviceLog')].op = "GetLLMAdvice"
        => LET c == adviceLog'[Len(adviceLog')]
               info == c.repos[1]
               h == computeStateHash(info, c.opts.Instructions)
               hit == HoldsEntry(adviceCache, info, c.opts.Instructions)
           IN  /\ ~c.opts.NoCache /\ hit
                   => /\ c.advice = adviceCache[h].Advice /\ c.err = NoErr
                      /\ c.called = 0
                      /\ adviceCache' = adviceCache
               /\ c.called > 0 => c.opts.NoCache \/ ~hit
               /\ c.err # NoErr => c.advice = <<>> /\ adviceCache' = adviceCache]_vars
\* A first call missed, asked the provider and cached the advice; a second call
\* for the same state and instructions returned that advice without a request.
C39_Witness ==
    /\ Len(adviceLog) > 1
    /\ adviceLog[1].op = "GetLLMAdvice" /\ adviceLog[2].op = "GetLLMAdvice"
    /\ ~adviceLog[1].opts.NoCache /\ ~adviceLog[2].opts.NoCache
    /\ adviceLog[1].repos = adviceLog[2].repos
    /\ adviceLog[1].opts = adviceLog[2].opts
    /\ adviceLog[1].called = 1 /\ adviceLog[2].called = 0
    /\ adviceLog[1].advice # <<>> /\ adviceLog[2].advice = adviceLog[1].advice
    /\ adviceLog[2].err = NoErr


\* ---------------------------------------------------------------------------
\* The analyzer: AnalyzeDirectory, one goroutine per subdirectory.
\* ---------------------------------------------------------------------------

MaxEntries == 11
\* sem := make(chan struct{}, 8)
maxAnalyses == 8

\* The directory analyzed.
DirPath == <<"w">>
\* The k-th entry of a listing: the first is a hidden directory, the third a
\* plain file, the others directories, every other one a git repository.
EntryAt(k) ==
    [Name |-> IF k = 1 THEN <<".", k>> ELSE <<"d", k>>, IsDir |-> k # 3, Repo |-> k % 2 = 0]
\* What os.ReadDir returns: an error, or the entries sorted by name.
Listings ==
    {[err |-> TRUE, list |-> <<>>]}
    \cup {[err |-> FALSE, list |-> [k \in 1 .. n |-> EntryAt(k)]] : n \in 0 .. MaxEntries}

\* strings.HasPrefix(name, ".")
HasDotPrefix(name) == name # <<>> /\ name[1] = "."
\* filepath.Join(path, name), filepath.Base(path)
Join(path, name) == Append(path, name)
Base(path) == path[Len(path)]

\* Mutant of Listed: hidden directories are kept.
ListedHidden(e) == e.IsDir
\* AnalyzeDirectory: the entries that get a goroutine.
Listed(e) == e.IsDir /\ ~HasDotPrefix(e.Name)

ZeroRepoInfo == [Path |-> <<>>, Name |-> <<>>, IsGitRepo |-> FALSE]
\* AnalyzeRepo, as far as the directory's own data decide: the path, its base
\* name, and whether git.PlainOpen opened a repository there.
AnalyzeRepo(path, isRepo) == [Path |-> path, Name |-> Base(path), IsGitRepo |-> isRepo]

Goroutines == DOMAIN gpc

offDir == <<storeVars, harnessVars, forkVars, runVars, inputVars, lateVars, raceVars,
            reporterVars, identityVars, adviceVars, configVars>>

\* os.ReadDir, the loop that builds dirs, and results := make([]RepoInfo, len(dirs)).
ADReadDir ==
    /\ adpc = "readDir"
    /\ IF adEntries.err
       THEN /\ adpc' = "returned"
            /\ UNCHANGED <<adDirs, adResults, gpc>>
       ELSE LET kept == SelectSeq(adEntries.list, Listed)
            IN  /\ adDirs' = [i \in DOMAIN kept |->
                                [path |-> Join(DirPath, kept[i].Name), repo |-> kept[i].Repo]]
                /\ adResults' = [i \in DOMAIN kept |-> ZeroRepoInfo]
                /\ gpc' = [i \in DOMAIN kept |-> "new"]
                /\ adpc' = IF kept = <<>> THEN "wait" ELSE "spawn"
    /\ UNCHANGED <<adEntries, adSem, adWg, adOut, offDir>>

\* for i, dir := range dirs { wg.Add(1); go func(idx int, d string) {...}(i, dir) }:
\* one iteration.
ADSpawn ==
    /\ adpc = "spawn"
    /\ \E i \in Goroutines :
        /\ gpc[i] = "new" /\ \A j \in 1 .. i - 1 : gpc[j] # "new"
        /\ adWg' = adWg + 1
        /\ gpc' = [gpc EXCEPT ![i] = "spawned"]
        /\ adpc' = IF i = Len(adDirs) THEN "wait" ELSE "spawn"
    /\ UNCHANGED <<adEntries, adDirs, adResults, adSem, adOut, offDir>>

\* sem <- struct{}{}: blocks while the channel is full.
GoAcquire(i) ==
    /\ gpc[i] = "spawned" /\ adSem < maxAnalyses
    /\ adSem' = adSem + 1
    /\ gpc' = [gpc EXCEPT ![i] = "running"]
    /\ UNCHANGED <<adpc, adEntries, adDirs, adResults, adWg, adOut, offDir>>

\* results[idx] = AnalyzeRepo(d, opts)
GoAnalyze(i) ==
    /\ gpc[i] = "running"
    /\ adResults' = [adResults EXCEPT ![i] = AnalyzeRepo(adDirs[i].path, adDirs[i].repo)]
    /\ gpc' = [gpc EXCEPT ![i] = "stored"]
    /\ UNCHANGED <<adpc, adEntries, adDirs, adSem, adWg, adOut, offDir>>

\* The goroutine returns and its deferred calls run, last deferred first:
\* func() { <-sem }(), then wg.Done().
GoReturn(i) ==
    /\ gpc[i] = "stored"
    /\ adSem' = adSem - 1
    /\ adWg' = adWg - 1
    /\ gpc' = [gpc EXCEPT ![i] = "done"]
    /\ UNCHANGED <<adpc, adEntries, adDirs, adResults, adOut, offDir>>

\* wg.Wait(); return results. The goroutine of showProgress only sleeps.
ADWait ==
    /\ adpc = "wait" /\ adWg = 0
    /\ adOut' = adResults
    /\ adpc' = "returned"
    /\ UNCHANGED <<adEntries, adDirs, adResults, gpc, adSem, adWg, offDir>>

\* Everything else is idle; AnalyzeDirectory is called on some directory.
DirInit ==
    /\ disk = [fn \in FileNames |-> FileMissing]
    /\ fs = HealthyFS /\ clock = 0 /\ crashed = FALSE
    /\ call = NoCall /\ ForkIdle /\ GhIdle /\ PackagesIdle
    /\ adpc = "readDir" /\ adEntries \in Listings
    /\ adDirs = <<>> /\ adResults = <<>> /\ gpc = <<>>
    /\ adSem = 0 /\ adWg = 0 /\ adOut = <<>>

DirNext ==
    \/ ADReadDir
    \/ ADSpawn
    \/ \E i \in Goroutines : GoAcquire(i)
    \/ \E i \in Goroutines : GoAnalyze(i)
    \/ \E i \in Goroutines : GoReturn(i)
    \/ ADWait

SpecDir == DirInit /\ [][DirNext]_vars

\* The subdirectories of a listing that are not hidden, in listing order.
Subdirectories(list) == SelectSeq(list, LAMBDA e : e.IsDir /\ e.Name[1] # ".")
Analyzing == {i \in Goroutines : gpc[i] = "running"}

\* C40: AnalyzeDirectory is an index-partitioned parallel map. What it returns
\* has one RepoInfo per non-hidden subdirectory, the i-th being the analysis of
\* the i-th such subdirectory in listing order, whatever the order in which the
\* goroutines finished; at most 8 AnalyzeRepo calls run at a time; and it
\* returns only once every goroutine has finished.
C40_IndexPartitionedMap ==
    /\ Cardinality(Analyzing) <= 8
    /\ adpc = "returned" /\ ~adEntries.err
         => /\ \A i \in Goroutines : gpc[i] = "done"
            /\ LET subs == Subdirectories(adEntries.list)
               IN  /\ Len(adOut) = Len(subs)
                   /\ \A i \in DOMAIN subs :
                         /\ adOut[i].Path = <<"w", subs[i].Name>>
                         /\ adOut[i].Name = subs[i].Name
                         /\ adOut[i].IsGitRepo = subs[i].Repo
\* AnalyzeDirectory has returned the analyses of more subdirectories than the
\* semaphore admits at a time, repositories and plain directories among them.
C40_Witness ==
    /\ adpc = "returned" /\ Len(adOut) > 8
    /\ \E i, j \in DOMAIN adOut : adOut[i].IsGitRepo /\ ~adOut[j].IsGitRepo

====
